---- MODULE Spec2Model ----
(***************************************************************************)
(* Model of aleo-scraper-python.                                           *)
(*                                                                         *)
(* The MailerLite synchronisation: common.run_sync driving one of the two  *)
(* subscriber adapters (adapters/http_adapter.py, adapters/sdk_adapter.py):*)
(* Spec is a whole run, SpecCall one upsert_subscriber call, SpecCallAny   *)
(* such a call for any RETRY_COUNT, SpecLive the run of run_http.py with   *)
(* its API requests counted, under weak fairness.                          *)
(*                                                                         *)
(* The crawler (main.py): SpecStore is any sequence of store_companies     *)
(* calls, SpecCrawl the page loop with the enrichment and the storing of   *)
(* each page.                                                              *)
(*                                                                         *)
(* SpecRun is a run that uses the database, a sync run or a crawl; SpecFn  *)
(* is one call of a pure function (valid_email, _norm_site,                *)
(* get_company_count with get_page_count).                                 *)
(*                                                                         *)
(* SpecReg is a call of sync_all_missing followed by upsert_biznesgovpl    *)
(* calls (biznesgovpl_sync.py); SpecApi is one request to the lookup API   *)
(* (api_server.py).                                                        *)
(*                                                                         *)
(* Strings whose characters matter (emails, exception messages) are       *)
(* sequences of one-character strings.  Durations are integers in units   *)
(* of 0.1 s (the default retry_backoff_base 0.8 s is 8); multiplying by a  *)
(* power of two is exact in both representations.                          *)
(***************************************************************************)
EXTENDS Integers, Sequences, FiniteSets, TLC

\* ------------------------------------------------------------------ bounds
\* Largest retry_count a single upsert_subscriber call is drawn with.
MaxRetry == 3
\* Largest number of rows of the connections table.
MaxRows == 3

\* ------------------------------------------------------------ text helpers
Upper == <<"A","B","C","D","E","F","G","H","I","J","K","L","M",
           "N","O","P","Q","R","S","T","U","V","W","X","Y","Z">>
LowerLetters == <<"a","b","c","d","e","f","g","h","i","j","k","l","m",
                  "n","o","p","q","r","s","t","u","v","w","x","y","z">>

\* Each upper-case letter's lower-case letter.
LowerMap ==
  [ c \in { Upper[i] : i \in 1..Len(Upper) } |->
      LowerLetters[CHOOSE i \in 1..Len(Upper) : Upper[i] = c] ]

\* str.lower() / SQL LOWER() on one character.
LowerChar(c) == IF c \in DOMAIN LowerMap THEN LowerMap[c] ELSE c

\* The emails of the rows of the connections table.
EmailUpperA == <<"A","@","x",".","c">>
EmailA == <<"a","@","x",".","c">>
EmailB == <<"b","@","x",".","c">>
EmailInfo == <<"i","n","f","o","@","x",".","c">>

\* str.lower() / SQL LOWER(), character by character.
LowerSeq(s) == [i \in 1..Len(s) |-> LowerChar(s[i])]

\* The lowered emails of the table, converted once.
LowerOfEmail ==
  [e \in {EmailUpperA, EmailA, EmailB, EmailInfo} |-> LowerSeq(e)]

\* str.lower() / SQL LOWER().
Lower(s) == IF s \in DOMAIN LowerOfEmail THEN LowerOfEmail[s] ELSE LowerSeq(s)

\* Python's `t in s` on strings.
Contains(s, t) ==
  \E i \in 0..(Len(s) - Len(t)) : \A j \in 1..Len(t) : s[i + j] = t[j]

\* str.startswith.
StartsWith(s, t) ==
  Len(t) <= Len(s) /\ \A j \in 1..Len(t) : s[j] = t[j]

\* The characters the regex class \s matches.
Whitespace == {" ", "\t", "\n", "\r", "\f"}

\* ------------------------------------------------------------- valid_email
\* [^@\s]+@[^@\s]+\.[^@\s]+ over the whole of s.
EmailCore(s) ==
  /\ \A i \in 1..Len(s) : s[i] \notin Whitespace
  /\ Cardinality({i \in 1..Len(s) : s[i] = "@"}) = 1
  /\ LET at == CHOOSE i \in 1..Len(s) : s[i] = "@"
     IN  /\ at > 1
         /\ \E d \in (at + 2)..(Len(s) - 1) : s[d] = "."

\* EMAIL_RE.match(s): `$` also matches just before one trailing newline.
EmailReMatch(s) ==
  \/ EmailCore(s)
  \/ /\ Len(s) > 0
     /\ s[Len(s)] = "\n"
     /\ EmailCore(SubSeq(s, 1, Len(s) - 1))

\* A faulty variant of role_like: the words without the "@".
role_like_Words == { <<"s","u","p","p","o","r","t">>,
                     <<"i","n","f","o">>,
                     <<"a","d","m","i","n">>,
                     <<"n","o","-","r","e","p","l","y">>,
                     <<"n","o","r","e","p","l","y">> }

role_like == { <<"s","u","p","p","o","r","t","@">>,
               <<"i","n","f","o","@">>,
               <<"a","d","m","i","n","@">>,
               <<"n","o","-","r","e","p","l","y","@">>,
               <<"n","o","r","e","p","l","y","@">> }

valid_email(email) ==
  /\ email # <<>>
  /\ EmailReMatch(email)
  /\ ~ \E tok \in role_like : Contains(Lower(email), tok)

\* ------------------------------------------------------------ configuration
\* The values of Config this model draws: whether MAILERLITE_API_KEY is set,
\* MAILERLITE_GROUP_ID (0: unset), QUERY_LIMIT, RETRY_COUNT and
\* RETRY_BACKOFF_BASE (0.1 s units).
GroupIds == {0, 5}
QueryLimits == {0, 1}
BackoffBases == {1, 8}
\* RETRY_COUNT of the single calls drawn: int(os.getenv("RETRY_COUNT", "3"))
\* takes any integer, a negative one included.
CallRetryCounts == {-1} \cup 0..MaxRetry
\* RETRY_COUNT and RETRY_BACKOFF_BASE of the whole runs drawn.
RunRetryCounts == {0, 2}
RunBackoffBases == {8}

Configs(retries, bases) ==
  [ mailerlite_api_key : BOOLEAN,
    mailerlite_group_id : GroupIds,
    query_limit : QueryLimits,
    retry_count : retries,
    retry_backoff_base : bases ]

\* ------------------------------------------------------ the connections table

\* Rows of the connections table: email, nip (0: NULL) and search_city.
RowPool ==
  { [email |-> EmailUpperA, nip |-> 0, city |-> "Wroclaw"],
    [email |-> EmailA,      nip |-> 1, city |-> "Wroclaw"],
    [email |-> EmailB,      nip |-> 0, city |-> "Wroclaw"],
    [email |-> EmailInfo,   nip |-> 0, city |-> "Wroclaw"] }

Tables == UNION { [1..n -> RowPool] : n \in 0..MaxRows }

RECURSIVE Distinct(_)
\* SELECT DISTINCT: every row once, here in order of first occurrence.
Distinct(rows) ==
  IF rows = <<>> THEN <<>>
  ELSE LET front == Distinct(SubSeq(rows, 1, Len(rows) - 1))
           last == rows[Len(rows)]
       IN  IF \E i \in 1..Len(front) : front[i] = last
           THEN front
           ELSE Append(front, last)

\* The WHERE clause of yield_emails_from_db.
SqlWhere(row) == row.email # <<>> /\ row.city = "Wroclaw"

\* The SELECT list: LOWER(email) AS email, nip.
SqlProject(row) == [email |-> Lower(row.email), nip |-> row.nip]

\* list(yield_emails_from_db(cfg, limit)): the rows the query returns.
yield_emails_from_db(rows, limit) ==
  LET kept == SelectSeq(rows, SqlWhere)
      projected == [i \in 1..Len(kept) |-> SqlProject(kept[i])]
      distinct == Distinct(projected)
  IN  IF limit > 0 /\ limit < Len(distinct)
      THEN SubSeq(distinct, 1, limit)
      ELSE distinct

\* ------------------------------------------------------------ API responses
\* Status codes the subscribers endpoint is drawn to answer with.
Statuses == {200, 201, 202, 204, 404, 409, 422, 429, 503}

\* A response body as resp.json() sees it: not JSON, a JSON value that is not
\* an object, or an object with data.id and id (0: absent).  The same shape
\* holds the adapter's best-effort response {"status": s, "email": e}.
Body(kind, data_id, id, status, email) ==
  [kind |-> kind, data_id |-> data_id, id |-> id, status |-> status, email |-> email]
NoJson == Body("nojson", 0, 0, 0, <<>>)
NonDict == Body("list", 0, 0, 0, <<>>)
Dict(data_id, id) == Body("dict", data_id, id, 0, <<>>)
NoResp == Body("none", 0, 0, 0, <<>>)
BestEffort(status, email) == Body("dict", 0, 0, status, email)

Bodies == {NoJson, NonDict} \cup { Dict(d, i) : d \in {0, 7}, i \in {0, 9} }

\* Errors: a transport failure or a JSON decoding error of attempt n, an
\* exception of the SDK client in attempt n, or the adapters' generic
\* RuntimeError.
Err(k, n) == [k |-> k, n |-> n]
NoErr == Err("none", 0)
GenericErr == Err("generic", 0)

\* What one POST to /subscribers can end in: a transport failure
\* (requests.RequestException) or a response.  The body is read only for the
\* statuses the adapter returns on.
ApiOutcomes ==
  { [net |-> TRUE, status |-> 0, body |-> NoJson] }
  \cup { [net |-> FALSE, status |-> s, body |-> b] :
           s \in {200, 201, 202, 409}, b \in Bodies }
  \cup { [net |-> FALSE, status |-> s, body |-> NoJson] :
           s \in Statuses \ {200, 201, 202, 409} }

\* ----------------------------------------------------------- retry helpers
\* A faulty variant of HasNextAttempt: the loop runs one pass too many.
HasNextAttempt_OffByOne(attempt, retry_count) == attempt <= retry_count + 1

\* A faulty variant of HasNextAttempt: the first pass is always made.
HasNextAttempt_AtLeastOnce(attempt, retry_count) ==
  attempt = 1 \/ attempt <= retry_count

\* for attempt in range(1, retry_count + 1)
HasNextAttempt(attempt, retry_count) == attempt <= retry_count

\* A faulty variant of Backoff: the exponent is the attempt number itself.
Backoff_ExponentAttempt(base, attempt) == base * 2 ^ attempt

\* sleep_for = retry_backoff_base * (2 ** (attempt - 1))
Backoff(base, attempt) == base * 2 ^ (attempt - 1)

\* A faulty variant of HttpStatusClass: a 422 is retried like a 5xx.
HttpStatusClass_422Retried(status) ==
  IF status \in {200, 201} THEN "ok"
  ELSE IF status = 202 THEN "accepted"
  ELSE IF status = 409 THEN "conflict"
  ELSE IF status \in {422, 429, 500, 502, 503, 504} THEN "transient"
  ELSE "unexpected"

\* A faulty variant of HttpStatusClass: every status without a branch is retried.
HttpStatusClass_UnexpectedRetried(status) ==
  IF status \in {200, 201} THEN "ok"
  ELSE IF status = 202 THEN "accepted"
  ELSE IF status = 409 THEN "conflict"
  ELSE IF status = 422 THEN "invalid"
  ELSE "transient"

\* The status branches of HttpAdapter.upsert_subscriber, in source order.
HttpStatusClass(status) ==
  IF status \in {200, 201} THEN "ok"
  ELSE IF status = 202 THEN "accepted"
  ELSE IF status = 409 THEN "conflict"
  ELSE IF status = 422 THEN "invalid"
  ELSE IF status \in {429, 500, 502, 503, 504} THEN "transient"
  ELSE "unexpected"

\* A faulty variant of AfterLoop: last_err is forgotten.
AfterLoop_AlwaysGeneric(last) == GenericErr

\* The statements after the retry loop: raise last_err if set, else the
\* generic RuntimeError.
AfterLoop(last) == IF last # NoErr THEN last ELSE GenericErr

\* What one attempt decides: ctl is "return" (resp), "raise" (err) or
\* "continue" (after sleeping dur when slept); last is last_err afterwards.
Step(ctl, resp, err, last, slept, dur) ==
  [ctl |-> ctl, resp |-> resp, err |-> err, last |-> last, slept |-> slept, dur |-> dur]

\* One pass of the retry loop of HttpAdapter.upsert_subscriber on outcome out
\* of session.post.  resp.json() of an undecodable body raises; whether that
\* exception is a requests.RequestException (requests >= 2.27) or a plain
\* ValueError depends on the installed requests: jsonIsRequestException.
HttpStep(email, attempt, last, out, jsonIsRequestException, base) ==
  LET class == HttpStatusClass(out.status)
      retry(l) == Step("continue", NoResp, NoErr, l, TRUE, Backoff(base, attempt))
  IN  IF out.net THEN retry(Err("transport", attempt))
      ELSE IF class = "ok"
      THEN IF out.body.kind # "nojson"
           THEN Step("return", out.body, NoErr, last, FALSE, 0)
           ELSE IF jsonIsRequestException
                THEN retry(Err("json", attempt))
                ELSE Step("raise", NoResp, Err("json", attempt), last, FALSE, 0)
      ELSE IF class \in {"accepted", "conflict"}
      THEN IF out.body.kind # "nojson"
           THEN Step("return", out.body, NoErr, last, FALSE, 0)
           ELSE Step("return", BestEffort(out.status, email), NoErr, last, FALSE, 0)
      ELSE IF class = "invalid"
      THEN Step("raise", NoResp, AfterLoop(last), last, FALSE, 0)
      ELSE IF class = "transient"
      THEN retry(last)
      ELSE Step("raise", NoResp, AfterLoop(last), last, FALSE, 0)

\* ------------------------------------------------------------- SDK client
DigitChars == <<"0","1","2","3","4","5","6","7","8","9">>

\* str(status) of a three-digit status code.
Digits(n) ==
  << DigitChars[(n \div 100) + 1],
     DigitChars[((n \div 10) % 10) + 1],
     DigitChars[(n % 10) + 1] >>

MsgTimeout == <<"t","i","m","e","o","u","t">>
MsgRefused == <<"r","e","f","u","s","e","d">>
MsgRate == <<"R","a","t","e">>

\* Messages of the exception the SDK client may raise for an API answer:
\* transport failures (api 0), or an error status with the code first or
\* after a prefix; a 429 may also be worded as a rate limit.
SdkMessages(api) ==
  IF api = 0 THEN {MsgTimeout, MsgRefused}
  ELSE {Digits(api), <<"e">> \o Digits(api)}
       \cup (IF api = 429 THEN {MsgRate} ELSE {})

\* What client.subscribers.create can end in.  The client is a third-party
\* library: a transport failure raises, a 200/201 returns the parsed body,
\* and any other status either raises or returns the error payload.
SdkOutcomes ==
  { [raised |-> TRUE, api |-> 0, msg |-> m, body |-> NoResp] : m \in SdkMessages(0) }
  \cup { [raised |-> FALSE, api |-> s, msg |-> <<>>, body |-> Dict(d, i)] :
           s \in {200, 201}, d \in {0, 7}, i \in {0, 9} }
  \cup UNION { { [raised |-> TRUE, api |-> s, msg |-> m, body |-> NoResp] :
                   m \in SdkMessages(s) }
               \cup { [raised |-> FALSE, api |-> s, msg |-> <<>>, body |-> Dict(0, 0)] } :
               s \in Statuses \ {200, 201} }

\* any(x in msg for x in ["429", "rate", "timeout"]) or msg.startswith("5")
SdkTransient(msg) ==
  \/ \E x \in { <<"4","2","9">>, <<"r","a","t","e">>, MsgTimeout } : Contains(msg, x)
  \/ StartsWith(msg, <<"5">>)

\* One pass of the retry loop of SdkAdapter.upsert_subscriber.
SdkStep(attempt, last, out, base) ==
  IF ~out.raised
  THEN Step("return", out.body, NoErr, last, FALSE, 0)
  ELSE IF SdkTransient(Lower(out.msg))
       THEN Step("continue", NoResp, NoErr, Err("sdk", attempt), TRUE, Backoff(base, attempt))
       ELSE Step("raise", NoResp, Err("sdk", attempt), Err("sdk", attempt), FALSE, 0)

\* -------------------------------------------------------- assign_to_group
\* What the POST to /subscribers/{id}/groups/{group} can end in.
AssignStatuses == {200, 201, 204, 404, 409, 500}
AssignOutcomes ==
  { [net |-> TRUE, status |-> 0] }
  \cup { [net |-> FALSE, status |-> s] : s \in AssignStatuses }

\* HttpAdapter.assign_to_group.
HttpAssign(out) ==
  IF out.net THEN FALSE
  ELSE IF out.status \in {200, 201, 204} THEN TRUE
  ELSE IF out.status = 409 THEN TRUE
  ELSE FALSE

\* SdkAdapter.assign_to_group: true when the client call returns, false when
\* it raises.
SdkAssign(raised) == ~raised

\* Whether client.subscribers.assign_subscriber_to_group raises: it does on a
\* transport failure, does not on a success status, and for any other status
\* that is the third-party client's choice.
SdkAssignRaises(out) ==
  IF out.net THEN {TRUE}
  ELSE IF out.status \in {200, 201, 204} THEN {FALSE}
  ELSE BOOLEAN

\* -------------------------------------------------------------- run_sync
\* _extract_id: resp.get("data", {}).get("id") or resp.get("id"); 0 is None.
ExtractId(resp) ==
  IF resp.kind # "dict" THEN 0
  ELSE IF resp.data_id # 0 THEN resp.data_id ELSE resp.id

\* A faulty variant of SkipRow: the seen set is not consulted.
SkipRow_NoDedup(email, seenEmails) == email = <<>>

\* if not email or email in seen: continue
SkipRow(email, seenEmails) == email = <<>> \/ email \in seenEmails

\* The try body of run_sync raises when the adapter raised or when resp.get
\* is called on a response that is no dict.
TryRaises(result) == result.kind = "raised" \/ result.resp.kind # "dict"

\* A faulty variant of ExceptPc: the exception leaves run_sync.
ExceptPc_Propagates == "failed"

\* except Exception as e: logger.error(...), and the loop goes on.
ExceptPc == "loop"

\* A faulty variant of WantsAssign: the configured group is not consulted.
WantsAssign_GroupIgnored(subscriber_id, group_id) == subscriber_id # 0

\* if subscriber_id and cfg.mailerlite_group_id:
WantsAssign(subscriber_id, group_id) == subscriber_id # 0 /\ group_id # 0

\* A faulty variant of HasCredential: the key is never looked at.
HasCredential_Unchecked(c) == TRUE

\* if not cfg.mailerlite_api_key: raise RuntimeError(...)
HasCredential(c) == c.mailerlite_api_key

\* ------------------------------------------- main.py: the company records
\* Texts are sequences of one-character strings.  None is the one-element
\* sequence holding the marker NULL, which no text is; the empty text "" is
\* the empty sequence.
Null == << "NULL" >>
Empty == << >>

\* Detail urls, tax ids, registration ids and contact data of the directory.
UrlA == << "/", "a" >>
UrlB == << "/", "b" >>
Nip1 == << "1" >>
Nip2 == << "2" >>
Regon1 == << "7" >>
Regon2 == << "8" >>
NameA == << "A" >>
NameB == << "B" >>
Street == << "s", "t" >>
Phone123 == << "1", "2", "3" >>
EmailXY == << "x", "@", "y", ".", "c", "o", "m" >>
SiteA == << "h", "t", "t", "p", "s", ":", "/", "/", "a", ".", "p", "l" >>

\* The module-level search parameters store_companies writes into each row.
PHRASE == << "a" >>
VOIVODSHIPS == << "S", "L", "A", "S", "K", "I", "E" >>
CITY == << "K", "a", "t", "o", "w", "i", "c", "e" >>

\* A company dict: the keys extract_companies sets, and the contact keys
\* the enrichment may add (Null: the key is absent).
Company(name, url, nip, regon, email, phone, website) ==
  [name |-> name, url |-> url, address |-> Street, nip |-> nip,
   regon |-> regon, email |-> email, phone |-> phone, website |-> website]

\* The dicts store_companies is handed in SpecStore: company A with a
\* phone only and with an email only, company B, and two dicts with B's url
\* that share the tax id, or the registration id, of company A.
CompanyA_Phone == Company(NameA, UrlA, Nip1, Regon1, Null, Phone123, Null)
CompanyA_Email == Company(NameA, UrlA, Nip1, Regon1, EmailXY, Null, Null)
CompanyB == Company(NameB, UrlB, Nip2, Regon2, EmailXY, Phone123, SiteA)
CompanyB_NipOfA == Company(NameB, UrlB, Nip1, Regon2, Null, Null, Null)
CompanyB_RegonOfA == Company(NameB, UrlB, Nip2, Regon1, Null, Null, Null)
CompanyPool ==
  { CompanyA_Phone, CompanyA_Email, CompanyB, CompanyB_NipOfA, CompanyB_RegonOfA }

\* The longest list handed to one store_companies call.
MaxBatch == 2

\* The parameter tuple of the INSERT: the dict's values, None for a missing
\* contact key, and the three search parameters.
Row(c) ==
  [name |-> c.name, aleo_url |-> c.url, address |-> c.address, nip |-> c.nip,
   regon |-> c.regon, email |-> c.email, phone |-> c.phone,
   website |-> c.website, search_phrase |-> PHRASE,
   search_voivodships |-> VOIVODSHIPS, search_city |-> CITY]

\* The UNIQUE columns of connections: aleo_url, nip, regon.  NULLs never
\* collide.
UniqueViolation(rows, r) ==
  \E i \in 1..Len(rows) :
    \/ r.aleo_url # Null /\ rows[i].aleo_url = r.aleo_url
    \/ r.nip # Null /\ rows[i].nip = r.nip
    \/ r.regon # Null /\ rows[i].regon = r.regon

\* A faulty variant of InsertRow: a row with the same aleo_url is replaced by
\* the incoming one, nulls included.
InsertRow_Overwrite(rows, c) ==
  IF \E i \in 1..Len(rows) : rows[i].aleo_url = c.url
  THEN [i \in 1..Len(rows) |->
          IF rows[i].aleo_url = c.url THEN Row(c) ELSE rows[i]]
  ELSE IF UniqueViolation(rows, Row(c)) THEN rows
  ELSE Append(rows, Row(c))

\* A faulty variant of InsertRow: the table has no unique columns.
InsertRow_NoUnique(rows, c) == Append(rows, Row(c))

\* INSERT INTO connections (...) VALUES (...) ON CONFLICT DO NOTHING: with no
\* conflict target, a violation of any unique column skips the row.
InsertRow(rows, c) ==
  IF UniqueViolation(rows, Row(c)) THEN rows ELSE Append(rows, Row(c))

\* lastWrite: the record of the latest INSERT, the committed rows it met,
\* whether the latest committed INSERT before it was of the same record, and
\* whether it failed.
Write(rec, before, again, failed) ==
  [rec |-> rec, before |-> before, again |-> again, failed |-> failed]
NoCompany == Company(Null, Null, Null, Null, Null, Null, Null)
NoWrite == Write(NoCompany, <<>>, FALSE, FALSE)

\* ------------------------------------------- main.py: the detail pages
\* str.strip(): leading and trailing whitespace removed.
Strip(s) ==
  LET inked == { i \in 1..Len(s) : s[i] \notin Whitespace } IN
    IF inked = {} THEN <<>>
    ELSE SubSeq(s, CHOOSE i \in inked : \A n \in inked : i <= n,
                   CHOOSE i \in inked : \A n \in inked : i >= n)

\* s.split(sep, 1)[-1]: what follows the first sep, all of s without one.
AfterFirst(s, sep) ==
  LET hits == { i \in 1..(Len(s) - Len(sep) + 1) :
                  SubSeq(s, i, i + Len(sep) - 1) = sep } IN
    IF hits = {} THEN s
    ELSE SubSeq(s, (CHOOSE i \in hits : \A n \in hits : i <= n) + Len(sep),
                Len(s))

\* EMAIL_RE of _norm_site: ^[^@]+@[^@]+\.[^@]+$
SiteEmailMatch(s) ==
  /\ Cardinality({ i \in 1..Len(s) : s[i] = "@" }) = 1
  /\ LET at == CHOOSE i \in 1..Len(s) : s[i] = "@"
     IN  /\ at > 1
         /\ \E d \in (at + 2)..(Len(s) - 1) : s[d] = "."

\* urlparse(url).scheme is not empty: a letter, then letters, digits, "+",
\* "-" or ".", up to the first ":".
Letters ==
  { Upper[i] : i \in 1..Len(Upper) } \cup
  { LowerLetters[i] : i \in 1..Len(LowerLetters) }
SchemeChars ==
  Letters \cup { DigitChars[i] : i \in 1..Len(DigitChars) } \cup {"+", "-", "."}
HasScheme(url) ==
  \E i \in 2..Len(url) :
    /\ url[i] = ":"
    /\ \A n \in 1..(i - 1) : url[n] \in SchemeChars
    /\ url[1] \in Letters

Https == << "h", "t", "t", "p", "s", ":", "/", "/" >>

\* _norm_site: None for nothing and for an email address, else the stripped
\* text, with https:// in front when it has no scheme.
norm_site(url) ==
  IF url = Null \/ url = Empty THEN Null
  ELSE IF SiteEmailMatch(Strip(url)) THEN Null
  ELSE IF ~HasScheme(Strip(url)) THEN Https \o Strip(url)
  ELSE Strip(url)

\* A container div of a detail page: whether it is there, the href of its
\* first anchor with the wanted prefix (Null: none), and the texts of its
\* spans in document order, each flagged when its class has tooltip-icon.
Container(a, spans) == [present |-> TRUE, a |-> a, spans |-> spans]
NoContainer == [present |-> FALSE, a |-> Null, spans |-> <<>>]
Span(text, tooltip) == [text |-> text, tooltip |-> tooltip]

\* spans[-1].get_text(strip=True) over the spans that are no tooltip icon;
\* Null without such a span.
LastSpanText(c) ==
  LET plain == { i \in 1..Len(c.spans) : ~c.spans[i].tooltip } IN
    IF plain = {} THEN Null
    ELSE Strip(c.spans[CHOOSE i \in plain : \A n \in plain : i >= n].text)

\* The EMAIL and PHONE blocks: the anchor's href after the prefix, stripped,
\* else the last plain span; Null when the container is absent.
AnchorOrSpan(c, prefix) ==
  IF ~c.present THEN Null
  ELSE IF c.a # Null THEN Strip(AfterFirst(c.a, prefix))
  ELSE LastSpanText(c)

\* The WEBSITE block: the last plain span, normalised.
SiteOfSpan(c) ==
  IF ~c.present THEN Null ELSE norm_site(LastSpanText(c))

\* `if email: company["email"] = email`: a key is set to a non-empty value
\* only.
SetIfTruthy(old, value) ==
  IF value = Null \/ value = Empty THEN old ELSE value

Mailto == << "m", "a", "i", "l", "t", "o", ":" >>
Tel == << "t", "e", "l", ":" >>

\* The detail pages of the directory: A has a mailto anchor, no phone
\* container and its site in a span behind a tooltip icon; B has its email in
\* a span, a tel anchor and no site container.
Detail(email, phone, site) == [email |-> email, phone |-> phone, site |-> site]
DetailPage(url) ==
  IF url = UrlA
  THEN Detail(Container(Mailto \o EmailXY, <<>>),
              NoContainer,
              Container(Null, << Span(<< "i" >>, TRUE),
                                 Span(<< " ", "a", ".", "p", "l" >>, FALSE) >>))
  ELSE Detail(Container(Null, << Span(EmailXY \o << " " >>, FALSE) >>),
              Container(Tel \o Phone123, <<>>),
              NoContainer)

\* The try body after driver.get: the three blocks, each setting its key
\* when it found a value.
Enriched_FreshDict(c, d) ==
  Company(Null, c.url, Null, Null,
          SetIfTruthy(c.email, AnchorOrSpan(d.email, Mailto)),
          SetIfTruthy(c.phone, AnchorOrSpan(d.phone, Tel)),
          SetIfTruthy(c.website, SiteOfSpan(d.site)))
Enriched(c, d) ==
  [c EXCEPT !.email = SetIfTruthy(@, AnchorOrSpan(d.email, Mailto)),
            !.phone = SetIfTruthy(@, AnchorOrSpan(d.phone, Tel)),
            !.website = SetIfTruthy(@, SiteOfSpan(d.site))]

\* ------------------------------------------------- main.py: the directory
\* The companies of the listing as extract_companies returns them.
ListedA == Company(NameA, UrlA, Nip1, Regon1, Null, Null, Null)
ListedB == Company(NameB, UrlB, Nip2, Regon2, Null, Null, Null)
ListingPool == { ListedA, ListedB }

\* The most companies the directory lists, and the page size (COUNT is 100
\* in main.py; the pages of the model are shorter).
MaxCompanies == 3
COUNT == 2

Catalogs == UNION { [1..n -> ListingPool] : n \in 0..MaxCompanies }

\* None, where an int is expected.
NoneInt == -1

\* What get_company_count can return for a directory of n companies: None
\* (no header, or no digits in it) or the number shown, which need not be
\* the number of companies the pages then list.
CompanyCounts == {NoneInt} \cup 0..MaxCompanies

\* A faulty variant of get_page_count: the quotient rounded down.
get_page_count_Floor(company_count, company_per_page) ==
  IF company_count = NoneInt THEN NoneInt
  ELSE company_count \div company_per_page

get_page_count(company_count, company_per_page) ==
  IF company_count = NoneInt THEN NoneInt
  ELSE (company_count + company_per_page - 1) \div company_per_page

\* The result containers of listing page p, extracted.
ListingPage(cat, p) ==
  SubSeq(cat, (p - 1) * COUNT + 1,
         IF p * COUNT < Len(cat) THEN p * COUNT ELSE Len(cat))

\* ------------------------------------------------- main.py: the browser
\* The browser: the number of secondary tabs open, the window in focus
\* ("original", "tab", or "none" once the window in focus was closed), what
\* the original window shows ("blank", "listing", "detail", "closed") and,
\* for a listing, its page number.
Browser(tabs, focus, original, shown) ==
  [tabs |-> tabs, focus |-> focus, original |-> original, shown |-> shown]

\* driver.switch_to.new_window("tab"): a new tab, and the focus on it.
NewWindow(d) == [d EXCEPT !.tabs = @ + 1, !.focus = "tab"]

\* driver.get: the window in focus navigates.
Get(d, what, p) ==
  IF d.focus = "original" THEN [d EXCEPT !.original = what, !.shown = p] ELSE d

\* A faulty variant of Close: the tab stays open.
Close_Noop(d) == d

\* driver.close(): the window in focus is closed.
Close(d) ==
  IF d.focus = "tab" THEN [d EXCEPT !.tabs = @ - 1, !.focus = "none"]
  ELSE IF d.focus = "original"
       THEN [d EXCEPT !.original = "closed", !.focus = "none"]
  ELSE d

\* driver.switch_to.window(handle)
SwitchTo(d, handle) == [d EXCEPT !.focus = handle]

\* ------------------------------------------------------------------ state
VARIABLES
  adapter,      \* "http" (run_http.py) or "sdk" (run_sdk.py)
  cfg,          \* the Config of the run
  table,        \* the rows of the connections table
  raw_emails,   \* run_sync: the list read from the database
  idx,          \* run_sync: position in raw_emails (1-based)
  seen,         \* run_sync: the emails already taken
  pc,           \* where the run is
  attempt,      \* upsert_subscriber: the loop variable
  last_err,     \* upsert_subscriber: last_err
  events,       \* the POSTs and sleeps of the upsert_subscriber call in progress
                \* or just ended (emptied once run_sync has taken its result)
  callResult,   \* how the current upsert_subscriber call ended
  curEmail,     \* the email argument of the current upsert_subscriber call
  upsertLog,    \* the email arguments of all upsert_subscriber calls so far
  assigns,      \* the assign_to_group calls made for the current record
  last422,      \* index of the latest record whose upsert got a 422 (0: none)
  requests      \* the API requests of the run so far, where they are counted

\* The crawler (main.py): store_companies.
VARIABLES
  stored,         \* the committed rows of the connections table
  companies_list, \* the list of company dicts of the page in hand
  spc,            \* where store_companies is
  number,         \* store_companies: records written and committed so far
  stored0,        \* the committed rows when store_companies was called
  lastWrite,      \* the latest INSERT executed: record, rows before, outcome
  lastCommitted,  \* the record of the latest committed INSERT
  dbconn          \* the database connection of the run: none, open, closed

\* The crawler (main.py): the page loop and the enrichment of a page.
VARIABLES
  catalog,        \* the companies the directory lists, in listing order
  page_count,     \* the global page_count
  page,           \* the loop variable of the page loop
  company,        \* augment_companies_with_contacts: position of the loop in the list
  driver,         \* the browser: its windows and the one in focus
  cpc,            \* where the crawl is
  crash,          \* what ended the crawl early, if anything did
  visits,         \* the detail-page visits made so far
  persisted       \* the pages whose store_companies call returned

\* A call of one of the pure functions, examined by itself.
VARIABLES
  call,           \* the function called and its arguments
  ret             \* what it returned, once it has

\* The registry sync (biznesgovpl_sync.py).
VARIABLES
  connections,    \* the connections table: the nip of the rows with id 1, 2, ...
  biznesgovpl,    \* the biznesgovpl table: rows of connection_id and data
  sync_limit,     \* sync_all_missing: the argument limit
  fetched_rows,   \* sync_all_missing: rows, the result of the query
  rpos,           \* sync_all_missing: position of the loop in rows (1-based)
  upserted,       \* sync_all_missing: count
  rpc,            \* where sync_all_missing is
  rret,           \* what sync_all_missing returned
  bizAtQuery,     \* the biznesgovpl table as the query saw it
  fetchLog,       \* the rows the loop has taken, each with what the registry gave
  upsertCalls,    \* the upsert_biznesgovpl calls that committed, oldest first
  direct          \* upsert_biznesgovpl calls made outside sync_all_missing

\* The lookup API (api_server.py).
VARIABLES
  environ,        \* the environment of the server after load_dotenv
  request,        \* the GET request: its nip parameter and its headers
  apc,            \* where the handling of the request is
  adriver,        \* the driver of the request: none, created, quit, quit_failed
  picked,         \* _scrape_company_by_nip: picked
  scraped,        \* how the try block of _scrape_company_by_nip ended
  quit_calls,     \* the driver.quit() calls made
  reply           \* the response sent

syncVars == << adapter, cfg, table, raw_emails, idx, seen, pc, attempt, last_err,
               events, callResult, curEmail, upsertLog, assigns, last422,
               requests >>
storeVars == << stored, companies_list, spc, number, stored0, lastWrite,
                lastCommitted, dbconn >>
crawlVars == << catalog, page_count, page, company, driver, cpc, crash, visits,
                persisted >>
regVars == << connections, biznesgovpl, sync_limit, fetched_rows, rpos, upserted,
              rpc, rret, bizAtQuery, fetchLog, upsertCalls, direct >>
\* What runs on its own, apart from the sync run and the crawl.
apiVars == << environ, request, apc, adriver, picked, scraped, quit_calls, reply >>
fnVars == << call, ret, regVars, apiVars >>
mainVars == << storeVars, crawlVars >>
vars == << syncVars, mainVars, fnVars >>

\* The crawler before anything ran; the sync run leaves it so.
StoreIdle ==
  /\ stored = <<>>
  /\ companies_list = <<>>
  /\ spc = "idle"
  /\ number = 0
  /\ stored0 = <<>>
  /\ lastWrite = NoWrite
  /\ lastCommitted = NoCompany
  /\ dbconn = "none"
CrawlIdle ==
  /\ catalog = <<>>
  /\ page_count = 0
  /\ page = 0
  /\ company = 0
  /\ driver = Browser(0, "original", "blank", 0)
  /\ cpc = "idle"
  /\ crash = "none"
  /\ visits = <<>>
  /\ persisted = {}
MainIdle == StoreIdle /\ CrawlIdle

\* No pure function is under examination; the runs leave it so.
NoCall == [fn |-> "none"]
NoRet == [done |-> FALSE]
\* The registry sync before anything ran.
RegIdle ==
  /\ connections = << >>
  /\ biznesgovpl = << >>
  /\ sync_limit = 0
  /\ fetched_rows = << >>
  /\ rpos = 0
  /\ upserted = 0
  /\ rpc = "idle"
  /\ rret = 0
  /\ bizAtQuery = << >>
  /\ fetchLog = << >>
  /\ upsertCalls = << >>
  /\ direct = 0

\* The lookup API before a request came in.
ApiIdle ==
  /\ environ = << >>
  /\ request = << >>
  /\ apc = "idle"
  /\ adriver = "none"
  /\ picked = << >>
  /\ scraped = << >>
  /\ quit_calls = 0
  /\ reply = 0

FnIdle == call = NoCall /\ ret = NoRet /\ RegIdle /\ ApiIdle

PostEvent(n, status, net, json, raised, msg) ==
  [t |-> "post", n |-> n, status |-> status, net |-> net, json |-> json,
   raised |-> raised, msg |-> msg, dur |-> 0]
SleepEvent(n, dur) ==
  [t |-> "sleep", n |-> n, status |-> 0, net |-> FALSE, json |-> FALSE,
   raised |-> FALSE, msg |-> <<>>, dur |-> dur]

Result(kind, resp, err) == [kind |-> kind, resp |-> resp, err |-> err]
NoResult == Result("none", NoResp, NoErr)

Adapters == {"http", "sdk"}

\* The requests of a run are counted from 0 where a claim needs the count;
\* elsewhere the counter stays at NotCounted.
NotCounted == -1
Counted(n) == IF n = NotCounted THEN n ELSE n + 1

\* The state in which main() of run_http.py / run_sdk.py starts.
MainStart(counter) ==
  /\ adapter \in Adapters
  /\ cfg \in Configs(RunRetryCounts, RunBackoffBases)
  /\ table \in Tables
  /\ raw_emails = <<>>
  /\ idx = 0
  /\ seen = {}
  /\ pc = "main"
  /\ attempt = 0
  /\ last_err = NoErr
  /\ events = <<>>
  /\ callResult = NoResult
  /\ curEmail = <<>>
  /\ upsertLog = <<>>
  /\ assigns = <<>>
  /\ last422 = 0
  /\ requests = counter
  /\ MainIdle
  /\ FnIdle

Init == MainStart(NotCounted)

\* HttpAdapter.__init__ / SdkAdapter.__init__: no API key, no adapter.
AdapterInit ==
  /\ pc = "main"
  /\ pc' = IF HasCredential(cfg) THEN "run_sync" ELSE "failed"
  /\ UNCHANGED << adapter, cfg, table, raw_emails, idx, seen, attempt, last_err,
                  events, callResult, curEmail, upsertLog, assigns, last422 >>
  /\ UNCHANGED << mainVars, fnVars, requests >>

\* A faulty variant of ConnClose: the connection stays as it is.
ConnClose_Leak(c) == c

\* conn.close() in the finally of yield_emails_from_db and of
\* store_companies.
ConnClose(c) == "closed"

\* run_sync up to the query: the key check, then list(...) starts the
\* generator, which connects; psycopg2.connect may fail.
RunSyncConnect ==
  /\ pc = "run_sync"
  /\ \E connected \in BOOLEAN :
       IF HasCredential(cfg) /\ connected
       THEN pc' = "fetch" /\ dbconn' = "open"
       ELSE pc' = "failed" /\ UNCHANGED dbconn
  /\ UNCHANGED << adapter, cfg, table, raw_emails, idx, seen, attempt,
                  last_err, events, callResult, curEmail, upsertLog, assigns,
                  last422 >>
  /\ UNCHANGED << stored, companies_list, spc, number, stored0, lastWrite,
                  lastCommitted >>
  /\ UNCHANGED << crawlVars, fnVars, requests >>

\* The try of yield_emails_from_db, run to its end by list(...): the query
\* is executed and its rows are read into the list, or the cursor raises;
\* both ways leave through the finally that closes the connection.
RunSyncFetch ==
  /\ pc = "fetch"
  /\ \E raised \in BOOLEAN :
       IF raised
       THEN /\ pc' = "failed"
            /\ UNCHANGED << raw_emails, idx >>
       ELSE /\ raw_emails' = yield_emails_from_db(table, cfg.query_limit)
            /\ idx' = 1
            /\ pc' = "loop"
  /\ dbconn' = ConnClose(dbconn)
  /\ UNCHANGED << adapter, cfg, table, seen, attempt, last_err, events,
                  callResult, curEmail, upsertLog, assigns, last422 >>
  /\ UNCHANGED << stored, companies_list, spc, number, stored0, lastWrite,
                  lastCommitted >>
  /\ UNCHANGED << crawlVars, fnVars, requests >>

\* The loop body up to `continue`: an empty or already seen email.
LoopSkip ==
  /\ pc = "loop"
  /\ idx <= Len(raw_emails)
  /\ SkipRow(raw_emails[idx].email, seen)
  /\ idx' = idx + 1
  /\ UNCHANGED << adapter, cfg, table, raw_emails, seen, pc, attempt, last_err,
                  events, callResult, curEmail, upsertLog, assigns, last422 >>
  /\ UNCHANGED << mainVars, fnVars, requests >>

\* The loop body up to the call of adapter.upsert_subscriber.
LoopUpsert ==
  /\ pc = "loop"
  /\ idx <= Len(raw_emails)
  /\ ~SkipRow(raw_emails[idx].email, seen)
  /\ seen' = seen \cup {raw_emails[idx].email}
  /\ curEmail' = raw_emails[idx].email
  /\ upsertLog' = Append(upsertLog, raw_emails[idx].email)
  /\ attempt' = 1
  /\ last_err' = NoErr
  /\ events' = <<>>
  /\ callResult' = NoResult
  /\ assigns' = <<>>
  /\ pc' = "upsert"
  /\ UNCHANGED << adapter, cfg, table, raw_emails, idx, last422 >>
  /\ UNCHANGED << mainVars, fnVars, requests >>

\* The loop is over.
RunSyncEnd ==
  /\ pc = "loop"
  /\ idx > Len(raw_emails)
  /\ pc' = "done"
  /\ UNCHANGED << adapter, cfg, table, raw_emails, idx, seen, attempt, last_err,
                  events, callResult, curEmail, upsertLog, assigns, last422 >>
  /\ UNCHANGED << mainVars, fnVars, requests >>

\* The effect of one pass of a retry loop that decided st after POST event post.
ApplyStep(st, post) ==
  /\ events' = IF st.slept
               THEN events \o << post, SleepEvent(attempt, st.dur) >>
               ELSE Append(events, post)
  /\ last_err' = st.last
  /\ IF st.ctl = "continue"
     THEN /\ attempt' = attempt + 1
          /\ UNCHANGED << pc, callResult >>
     ELSE /\ callResult' = IF st.ctl = "return"
                           THEN Result("returned", st.resp, NoErr)
                           ELSE Result("raised", NoResp, st.err)
          /\ pc' = "after_upsert"
          /\ UNCHANGED attempt

\* One pass of the loop of HttpAdapter.upsert_subscriber.
HttpAttempt ==
  /\ pc = "upsert"
  /\ adapter = "http"
  /\ HasNextAttempt(attempt, cfg.retry_count)
  /\ \E out \in ApiOutcomes, jsonIsRequestException \in BOOLEAN :
       /\ ApplyStep(HttpStep(curEmail, attempt, last_err, out,
                             jsonIsRequestException, cfg.retry_backoff_base),
                    PostEvent(attempt, out.status, out.net,
                              out.body.kind # "nojson", FALSE, <<>>))
       /\ last422' = IF ~out.net /\ out.status = 422 THEN idx ELSE last422
  /\ UNCHANGED << adapter, cfg, table, raw_emails, idx, seen, curEmail,
                  upsertLog, assigns >>
  /\ requests' = Counted(requests)
  /\ UNCHANGED << mainVars, fnVars >>

\* One pass of the loop of SdkAdapter.upsert_subscriber.
SdkAttempt ==
  /\ pc = "upsert"
  /\ adapter = "sdk"
  /\ HasNextAttempt(attempt, cfg.retry_count)
  /\ \E out \in SdkOutcomes :
       /\ ApplyStep(SdkStep(attempt, last_err, out, cfg.retry_backoff_base),
                    PostEvent(attempt, out.api, out.api = 0,
                              ~out.raised, out.raised, out.msg))
       /\ last422' = IF out.api = 422 THEN idx ELSE last422
  /\ UNCHANGED << adapter, cfg, table, raw_emails, idx, seen, curEmail,
                  upsertLog, assigns >>
  /\ requests' = Counted(requests)
  /\ UNCHANGED << mainVars, fnVars >>

\* The retry loop ran out of attempts: the statements after it.
UpsertExhausted ==
  /\ pc = "upsert"
  /\ ~HasNextAttempt(attempt, cfg.retry_count)
  /\ callResult' = Result("raised", NoResp, AfterLoop(last_err))
  /\ pc' = "after_upsert"
  /\ UNCHANGED << adapter, cfg, table, raw_emails, idx, seen, attempt, last_err,
                  events, curEmail, upsertLog, assigns, last422 >>
  /\ UNCHANGED << mainVars, fnVars, requests >>

\* run_sync after upsert_subscriber: an exception (raised by the adapter, or
\* by resp.get on a response that is no dict) is logged and the loop goes on;
\* otherwise the id is extracted and the group assignment decided.
AfterUpsert ==
  /\ pc = "after_upsert"
  /\ IF TryRaises(callResult)
     THEN /\ pc' = ExceptPc
          /\ idx' = idx + 1
     ELSE IF WantsAssign(ExtractId(callResult.resp), cfg.mailerlite_group_id)
     THEN /\ pc' = "assign"
          /\ UNCHANGED idx
     ELSE /\ pc' = "loop"
          /\ idx' = idx + 1
  /\ events' = <<>>
  /\ UNCHANGED << adapter, cfg, table, raw_emails, seen, attempt, last_err,
                  callResult, curEmail, upsertLog, assigns, last422 >>
  /\ UNCHANGED << mainVars, fnVars, requests >>

\* adapter.assign_to_group(int(subscriber_id), int(group_id)): one request.
AssignToGroup ==
  /\ pc = "assign"
  /\ \E out \in AssignOutcomes :
       \E raised \in (IF adapter = "sdk" THEN SdkAssignRaises(out) ELSE {FALSE}) :
         assigns' = Append(assigns,
                           [sid |-> ExtractId(callResult.resp),
                            gid |-> cfg.mailerlite_group_id,
                            net |-> out.net, status |-> out.status,
                            raised |-> raised,
                            result |-> IF adapter = "http"
                                       THEN HttpAssign(out)
                                       ELSE SdkAssign(raised)])
  /\ pc' = "loop"
  /\ idx' = idx + 1
  /\ UNCHANGED << adapter, cfg, table, raw_emails, seen, attempt, last_err,
                  events, callResult, curEmail, upsertLog, last422 >>
  /\ requests' = Counted(requests)
  /\ UNCHANGED << mainVars, fnVars >>

Next ==
  \/ AdapterInit
  \/ RunSyncConnect
  \/ RunSyncFetch
  \/ LoopSkip
  \/ LoopUpsert
  \/ RunSyncEnd
  \/ HttpAttempt
  \/ SdkAttempt
  \/ UpsertExhausted
  \/ AfterUpsert
  \/ AssignToGroup

Spec == Init /\ [][Next]_vars

\* ---------------------------------------------- one upsert_subscriber call
\* The state in which run_sync calls adapter.upsert_subscriber for the only
\* row of a one-row table, under every retry_count and backoff base drawn.
CallStart(retries) ==
  /\ adapter \in Adapters
  /\ cfg \in { c \in Configs(retries, BackoffBases) :
                 c.mailerlite_api_key /\ c.query_limit = 0 }
  /\ \E e \in {EmailA, EmailB} :
       /\ table = << [email |-> e, nip |-> 0, city |-> "Wroclaw"] >>
       /\ curEmail = e
       /\ seen = {e}
       /\ upsertLog = << e >>
  /\ raw_emails = yield_emails_from_db(table, cfg.query_limit)
  /\ idx = 1
  /\ pc = "upsert"
  /\ attempt = 1
  /\ last_err = NoErr
  /\ events = <<>>
  /\ callResult = NoResult
  /\ assigns = <<>>
  /\ last422 = 0
  /\ requests = NotCounted
  /\ MainIdle
  /\ FnIdle

InitCall == CallStart(0..MaxRetry)

NextCall ==
  \/ HttpAttempt
  \/ SdkAttempt
  \/ UpsertExhausted

SpecCall == InitCall /\ [][NextCall]_vars

\* The same call under any RETRY_COUNT the environment can hold, a negative
\* one included.
InitCallAny == CallStart(CallRetryCounts)

SpecCallAny == InitCallAny /\ [][NextCall]_vars

\* ------------------------------------------------------ reading the history
IsPost(e) == e.t = "post"
IsSleep(e) == e.t = "sleep"
Posts == SelectSeq(events, IsPost)
Sleeps == SelectSeq(events, IsSleep)
CallEnded == callResult.kind # "none"

\* A POST that was answered with status s.
Answered(e, s) == e.t = "post" /\ ~e.net /\ ~e.raised /\ e.status = s

\* ------------------------------------------------------------------ claims
TransientStatuses == {429, 500, 502, 503, 504}
SuccessStatuses == {200, 201, 202}

\* C1: whatever the API answers, one call of HttpAdapter.upsert_subscriber
\* issues at most retry_count POSTs.
C1_AtMostRetryCountPosts ==
  adapter = "http" => Len(Posts) <= cfg.retry_count

\* A call of the HTTP adapter that used every one of its (at least two)
\* attempts and then raised.
C1_Witness ==
  /\ adapter = "http"
  /\ cfg.retry_count >= 2
  /\ Len(Posts) = cfg.retry_count
  /\ callResult.kind = "raised"

\* C2: in one upsert_subscriber call no sleep precedes attempt 1, and attempt
\* n+1 is separated from attempt n by exactly one sleep, of duration
\* retry_backoff_base * 2^(n-1).
C2_BackoffBetweenAttempts ==
  /\ events # <<>> => IsPost(events[1]) /\ events[1].n = 1
  /\ \A i \in 1..Len(events) :
       (IsPost(events[i]) /\ events[i].n > 1) =>
         /\ i >= 3
         /\ IsSleep(events[i - 1])
         /\ events[i - 1].dur = cfg.retry_backoff_base * 2 ^ (events[i].n - 2)
         /\ IsPost(events[i - 2])
         /\ events[i - 2].n = events[i].n - 1

\* A call that reached its third attempt: two separating sleeps were taken.
C2_Witness ==
  /\ Len(Posts) >= 3
  /\ Len(Sleeps) >= 2
  /\ Sleeps[2].dur = 2 * Sleeps[1].dur

\* C3: if the API answers k transient statuses and then a success status,
\* k < retry_count, the HTTP adapter makes exactly k+1 POSTs, sleeps exactly k
\* times (base, 2*base, ..., base*2^(k-1)) and returns without raising.
C3_TransientThenSuccess ==
  adapter = "http" =>
    \A k \in 0..(cfg.retry_count - 1) :
      ( /\ Len(Posts) >= k + 1
        /\ \A i \in 1..k : \E s \in TransientStatuses : Answered(Posts[i], s)
        /\ \E s \in SuccessStatuses : Answered(Posts[k + 1], s) )
      => /\ Len(Posts) = k + 1
         /\ callResult.kind = "returned"
         /\ Len(Sleeps) = k
         /\ \A i \in 1..k : Sleeps[i].dur = cfg.retry_backoff_base * 2 ^ (i - 1)

\* C4: a 200/201/202 or 409 answer ends the call of the HTTP adapter at once
\* with a returned response: no further POST, no sleep, no exception; when the
\* body is not JSON the response is the best-effort one holding the email.
C4_SuccessReturnsAtOnce ==
  adapter = "http" =>
    \A i \in 1..Len(events) :
      (\E s \in SuccessStatuses \cup {409} : Answered(events[i], s)) =>
        /\ i = Len(events)
        /\ callResult.kind = "returned"
        /\ ~events[i].json =>
             callResult.resp = BestEffort(events[i].status, curEmail)

\* C6: a status outside {200, 201, 202, 409, 422, 429, 500, 502, 503, 504}
\* ends the retrying of the HTTP adapter at that attempt (no sleep, no further
\* POST) and the call raises.
C6_UnexpectedStatusIsTerminal ==
  adapter = "http" =>
    \A i \in 1..Len(events) :
      ( /\ IsPost(events[i])
        /\ ~events[i].net
        /\ events[i].status \notin
             {200, 201, 202, 409, 422, 429, 500, 502, 503, 504} )
      => /\ i = Len(events)
         /\ pc = "after_upsert"
         /\ callResult.kind = "raised"
         /\ callResult.err \in {GenericErr} \cup
              { Err(k, n) : k \in {"transport", "json"}, n \in 1..(events[i].n - 1) }

\* An unexpected status (404) on a retry: the call raised with no attempt
\* left unused being taken.
C6_Witness ==
  /\ adapter = "http"
  /\ cfg.retry_count >= 3
  /\ Len(Posts) = 2
  /\ Answered(Posts[1], 503)
  /\ Answered(Posts[2], 404)
  /\ callResult.kind = "raised"

\* Whether the attempt of POST event e ended in a transient outcome: for the
\* HTTP adapter a 429/5xx status or a transport failure, for the SDK adapter
\* an exception of the client that the adapter classifies as such.
TransientOutcome(e) ==
  IF adapter = "http"
  THEN e.net \/ \E s \in TransientStatuses : Answered(e, s)
  ELSE e.raised /\ SdkTransient(Lower(e.msg))

\* The error upsert_subscriber has recorded after the POSTs so far: the one of
\* the latest transport failure (HTTP) or of the latest exception (SDK).
RecordedAttempts ==
  { Posts[i].n : i \in { j \in 1..Len(Posts) :
                           IF adapter = "http" THEN Posts[j].net ELSE Posts[j].raised } }
LastRecorded ==
  IF RecordedAttempts = {} THEN GenericErr
  ELSE Err(IF adapter = "http" THEN "transport" ELSE "sdk",
           CHOOSE n \in RecordedAttempts : \A m \in RecordedAttempts : m <= n)

Got422 == \E i \in 1..Len(events) : Answered(events[i], 422)

\* C5: a 422 ends the call of the HTTP adapter at that attempt (no further
\* POST, no sleep) by raising, and run_sync then makes no group assignment for
\* the record and goes on with the next one.
C5_ValidationRejectedSkipsRecord ==
  /\ [](adapter = "http" =>
          /\ \A i \in 1..Len(events) :
               Answered(events[i], 422) =>
                 /\ i = Len(events)
                 /\ pc = "after_upsert"
                 /\ callResult.kind = "raised"
                 /\ assigns = <<>>
          /\ pc = "assign" => last422 # idx)
  /\ [][(adapter = "http" /\ Got422) =>
          /\ pc' = "loop"
          /\ idx' = idx + 1
          /\ assigns' = <<>>
          /\ upsertLog' = upsertLog]_vars

\* After a 422 on an earlier record the run is upserting a later one.
C5_Witness ==
  /\ adapter = "http"
  /\ last422 # 0
  /\ idx > last422
  /\ pc = "upsert"
  /\ Len(upsertLog) >= 2

\* C8: assign_to_group, in both adapters, makes one request, never raises,
\* and returns true exactly on a success status or an "already a member" 409:
\* false on every other status and on a transport failure.
C8_AssignResult ==
  \A i \in 1..Len(assigns) :
    assigns[i].result =
      (~assigns[i].net /\ assigns[i].status \in {200, 201, 204, 409})

\* C9: a run calls upsert_subscriber at most once per case-insensitive email,
\* always with the lowercased email of a table row; over the rows A@x.c,
\* a@x.c, b@x.c it makes exactly two calls, for a@x.c and b@x.c.
C9_OneUpsertPerEmail ==
  /\ \A i, j \in 1..Len(upsertLog) :
       i # j => Lower(upsertLog[i]) # Lower(upsertLog[j])
  /\ \A i \in 1..Len(upsertLog) :
       /\ upsertLog[i] = Lower(upsertLog[i])
       /\ \E r \in 1..Len(table) : Lower(table[r].email) = upsertLog[i]
  /\ ( /\ pc = "done"
       /\ cfg.query_limit = 0
       /\ [r \in 1..Len(table) |-> table[r].email] = << EmailUpperA, EmailA, EmailB >> )
     => upsertLog = << EmailA, EmailB >>

\* The run over A@x.c, a@x.c, b@x.c is over and contacted the adapter twice.
C9_Witness ==
  /\ pc = "done"
  /\ [r \in 1..Len(table) |-> table[r].email] = << EmailUpperA, EmailA, EmailB >>
  /\ Len(raw_emails) = 3
  /\ upsertLog = << EmailA, EmailB >>

\* C10: every email run_sync passes to upsert_subscriber satisfies
\* valid_email.
C10_OnlyValidEmailsUpserted ==
  \A i \in 1..Len(upsertLog) : valid_email(upsertLog[i])

\* The emails of rows in the order of their first occurrence, empty ones left
\* out: what a run that loses no record hands to upsert_subscriber.
FirstOccurrences(rows) ==
  LET F[n \in 0..Len(rows)] ==
        IF n = 0 THEN <<>>
        ELSE IF /\ rows[n].email # <<>>
                /\ \A j \in 1..(n - 1) : rows[j].email # rows[n].email
             THEN Append(F[n - 1], rows[n].email)
             ELSE F[n - 1]
  IN F[Len(rows)]

\* C11: whatever the adapter returns or raises, run_sync calls
\* upsert_subscriber exactly once for every distinct email of the rows it has
\* gone through, in source order, and once the loop has started the run never
\* fails: at its end every distinct email of the list has had its call.
C11_ExceptionsNeverStopTheRun ==
  /\ pc = "failed" => idx = 0
  /\ pc = "loop" =>
       upsertLog = FirstOccurrences(SubSeq(raw_emails, 1, idx - 1))
  /\ pc \in {"upsert", "after_upsert", "assign"} =>
       upsertLog = FirstOccurrences(SubSeq(raw_emails, 1, idx))
  /\ pc = "done" => upsertLog = FirstOccurrences(raw_emails)

\* The upsert of the first record raised (a 422 of the HTTP adapter, or a
\* non-transient exception of the SDK client), and the run ended with the
\* upserts of all three distinct emails made.
C11_Witness ==
  /\ pc = "done"
  /\ last422 = 1
  /\ Len(raw_emails) = 3
  /\ Len(upsertLog) = 3
  /\ callResult.kind = "raised"

\* The response carries a subscriber id: nested data.id, or top-level id.
CarriesId(resp) == resp.kind = "dict" /\ (resp.data_id # 0 \/ resp.id # 0)

\* C12: assign_to_group is called for a record exactly when its upsert
\* returned a response carrying a subscriber id (data.id, else id) and a
\* group id is configured; the call is made once, with that id and that
\* group, after the upsert returned and before the next upsert starts.
C12_AssignIffIdAndGroup ==
  /\ pc \in {"upsert", "after_upsert", "assign"} => assigns = <<>>
  /\ pc = "assign" =>
       /\ callResult.kind = "returned"
       /\ CarriesId(callResult.resp)
       /\ cfg.mailerlite_group_id # 0
  /\ (pc \in {"loop", "done"} /\ callResult # NoResult) =>
       /\ assigns # <<>> <=>
            /\ callResult.kind = "returned"
            /\ CarriesId(callResult.resp)
            /\ cfg.mailerlite_group_id # 0
       /\ assigns # <<>> =>
            /\ Len(assigns) = 1
            /\ assigns[1].sid = IF callResult.resp.data_id # 0
                                THEN callResult.resp.data_id
                                ELSE callResult.resp.id
            /\ assigns[1].gid = cfg.mailerlite_group_id

\* A response with no data.id but a top-level id 9 was followed by the
\* assignment of subscriber 9 to group 5.
C12_Witness ==
  /\ pc = "loop"
  /\ callResult.kind = "returned"
  /\ callResult.resp = Dict(0, 9)
  /\ Len(assigns) = 1
  /\ assigns[1].sid = 9
  /\ assigns[1].gid = 5

\* C13: a run without API key, or one whose database connection cannot be
\* opened, fails before any record is processed: a failed run has read no
\* row and called neither upsert_subscriber nor assign_to_group, and a run
\* without key never gets past the construction of the adapter.
C13_FailFastBeforeAnyRecord ==
  /\ pc = "failed" =>
       /\ raw_emails = <<>>
       /\ upsertLog = <<>>
       /\ assigns = <<>>
       /\ events = <<>>
       /\ callResult = NoResult
  /\ ~cfg.mailerlite_api_key =>
       /\ pc \in {"main", "failed"}
       /\ upsertLog = <<>>
       /\ assigns = <<>>

\* The key is there, the table has rows, the connection was refused: the run
\* failed in run_sync.
C13_Witness ==
  /\ pc = "failed"
  /\ cfg.mailerlite_api_key
  /\ Len(table) = 3

\* ------------------------------------------------ main.py: store_companies
\* The sync run before anything ran; the crawler leaves it so.
SyncIdle ==
  /\ adapter = "http"
  /\ cfg = [mailerlite_api_key |-> FALSE, mailerlite_group_id |-> 0,
            query_limit |-> 0, retry_count |-> 0, retry_backoff_base |-> 8]
  /\ table = <<>>
  /\ raw_emails = <<>>
  /\ idx = 0
  /\ seen = {}
  /\ pc = "idle"
  /\ attempt = 0
  /\ last_err = NoErr
  /\ events = <<>>
  /\ callResult = NoResult
  /\ curEmail = <<>>
  /\ upsertLog = <<>>
  /\ assigns = <<>>
  /\ last422 = 0
  /\ requests = NotCounted

\* store_companies is entered: nothing written yet, no connection yet.
EnterStore ==
  /\ spc' = "connect"
  /\ number' = 0
  /\ stored0' = stored
  /\ dbconn' = "none"

\* A caller hands store_companies a list of up to MaxBatch dicts of the
\* pool.  The dicts of the list are drawn one by one, each when the loop
\* gets to it (StoreMore), and the list ends where StoreReturn is taken.
StoreCall ==
  /\ spc \in {"idle", "returned", "raised"}
  /\ companies_list' = <<>>
  /\ EnterStore
  /\ UNCHANGED << stored, lastWrite, lastCommitted >>
  /\ UNCHANGED << syncVars, crawlVars, fnVars >>

\* The list handed over has one more dict.
StoreMore ==
  /\ spc = "loop"
  /\ number = Len(companies_list)
  /\ Len(companies_list) < MaxBatch
  /\ \E c \in CompanyPool : companies_list' = Append(companies_list, c)
  /\ UNCHANGED << stored, spc, number, stored0, lastWrite, lastCommitted,
                  dbconn >>
  /\ UNCHANGED << syncVars, crawlVars, fnVars >>

\* psycopg2.connect: it opens the connection, or raises OperationalError,
\* which store_companies prints and raises again (there is no conn to close).
StoreConnect ==
  /\ spc = "connect"
  /\ \E connected \in BOOLEAN :
       IF connected
       THEN dbconn' = "open" /\ spc' = "loop"
       ELSE dbconn' = "none" /\ spc' = "raised"
  /\ UNCHANGED << stored, companies_list, number, stored0, lastWrite,
                  lastCommitted >>
  /\ UNCHANGED << syncVars, crawlVars, fnVars >>

\* One pass of the loop: cur.execute(INSERT ...), conn.commit(), number += 1.
\* Either statement may raise; the exception leaves store_companies through
\* the finally that closes the connection, which rolls the open transaction
\* back: what earlier passes committed stays.
StoreWrite ==
  /\ spc = "loop"
  /\ number < Len(companies_list)
  /\ \E failed \in BOOLEAN :
       LET c == companies_list[number + 1] IN
         /\ lastWrite' = Write(c, stored, lastCommitted = c, failed)
         /\ IF failed
            THEN /\ spc' = "raised"
                 /\ dbconn' = ConnClose(dbconn)
                 /\ UNCHANGED << stored, number, lastCommitted >>
            ELSE /\ stored' = InsertRow(stored, c)
                 /\ number' = number + 1
                 /\ lastCommitted' = c
                 /\ UNCHANGED << spc, dbconn >>
  /\ UNCHANGED << companies_list, stored0 >>
  /\ UNCHANGED << syncVars, crawlVars, fnVars >>

\* The loop is over: cur.close(), and the finally closes the connection.
StoreReturn ==
  /\ spc = "loop"
  /\ number = Len(companies_list)
  /\ spc' = "returned"
  /\ dbconn' = ConnClose(dbconn)
  /\ UNCHANGED << stored, companies_list, number, stored0, lastWrite,
                  lastCommitted >>
  /\ UNCHANGED << syncVars, crawlVars, fnVars >>

\* Any sequence of store_companies calls on a table that starts empty.
InitStore == SyncIdle /\ MainIdle /\ FnIdle

NextStore ==
  \/ StoreCall
  \/ StoreConnect
  \/ StoreMore
  \/ StoreWrite
  \/ StoreReturn

SpecStore == InitStore /\ [][NextStore]_vars

\* ------------------------------------------------ claims on store_companies
HasUrl(rows, url) == \E i \in 1..Len(rows) : rows[i].aleo_url = url
RowOf(rows, url) == rows[CHOOSE i \in 1..Len(rows) : rows[i].aleo_url = url]

\* The merge the coalesce law asks for: an incoming value that is not null
\* replaces the stored one, a null one leaves it.
Coalesce(incoming, old) ==
  [f \in DOMAIN old |-> IF incoming[f] # Null THEN incoming[f] ELSE old[f]]

\* The latest INSERT went through and met a row with the url of its record.
WroteOverUrl ==
  /\ lastWrite # NoWrite
  /\ ~lastWrite.failed
  /\ HasUrl(lastWrite.before, lastWrite.rec.url)

\* C14: on a detailUrl conflict every non-null incoming field replaces the
\* stored value and every null one leaves it, so that {U, phone "123"}
\* followed by {U, phone null, email "x@y.com"} leaves the row of U with
\* phone "123" and email "x@y.com".
C14_CoalesceLaw ==
  WroteOverUrl =>
    /\ HasUrl(stored, lastWrite.rec.url)
    /\ RowOf(stored, lastWrite.rec.url) =
         Coalesce(Row(lastWrite.rec), RowOf(lastWrite.before, lastWrite.rec.url))
    /\ ( /\ lastWrite.rec = CompanyA_Email
         /\ RowOf(lastWrite.before, UrlA) = Row(CompanyA_Phone) )
       => /\ RowOf(stored, UrlA).phone = Phone123
          /\ RowOf(stored, UrlA).email = EmailXY

\* C15: no INSERT that went through replaced a non-null stored field by
\* null: every row it met is still there, under its url, with every field
\* that was not null still not null.
C15_NullNeverOverwrites ==
  (lastWrite # NoWrite /\ ~lastWrite.failed) =>
    \A i \in 1..Len(lastWrite.before) :
      LET old == lastWrite.before[i] IN
        /\ HasUrl(stored, old.aleo_url)
        /\ \A f \in DOMAIN old :
             old[f] # Null => RowOf(stored, old.aleo_url)[f] # Null

\* A dict without phone was written over the row of the same url that has
\* phone "123".
C15_Witness ==
  /\ WroteOverUrl
  /\ lastWrite.rec.phone = Null
  /\ RowOf(lastWrite.before, lastWrite.rec.url).phone = Phone123
  /\ spc = "returned"

\* C16: the table never holds two rows with the same aleo_url, and an INSERT
\* of the record that the latest committed INSERT before it wrote leaves the
\* table exactly as it was.
C16_UpsertIdempotent ==
  /\ \A i, n \in 1..Len(stored) :
       i # n => stored[i].aleo_url # stored[n].aleo_url
  /\ (lastWrite.again /\ ~lastWrite.failed) => stored = lastWrite.before

\* Company B was written twice in a row; its row, once in the table, is the
\* second of two.
C16_Witness ==
  /\ lastWrite.again
  /\ ~lastWrite.failed
  /\ lastWrite.rec = CompanyB
  /\ Len(stored) = 2
  /\ stored[2] = Row(CompanyB)

\* The record shares its tax id or its registration id with a row of another
\* url.
SecondaryCollision(rows, c) ==
  \E i \in 1..Len(rows) :
    /\ rows[i].aleo_url # c.url
    /\ \/ c.nip # Null /\ rows[i].nip = c.nip
       \/ c.regon # Null /\ rows[i].regon = c.regon

\* C17: an INSERT of a record whose nip or regon is that of a stored row
\* with another aleo_url fails: the collision reaches the caller as an error.
C17_CollisionSurfaced ==
  (lastWrite # NoWrite /\ SecondaryCollision(lastWrite.before, lastWrite.rec))
    => lastWrite.failed

\* C18: a store_companies call that failed left the table as it was when the
\* call began: none of the records written before the failing one is
\* committed.
C18_PageAllOrNothing ==
  spc = "raised" => stored = stored0

\* ------------------------------------------------------ main.py: the crawl
\* A detail-page visit: the page and the position of the company, and
\* whether the try body ran through.
Visit(p, n, ok) == [page |-> p, company |-> n, ok |-> ok]

\* The crawl ends early with an exception.
Crashes(why) == cpc' = "crashed" /\ crash' = why

\* The cell that loads the first page and reads the counts: driver.get may
\* raise; the header gives a count, or None.
CrawlStart ==
  /\ cpc = "start"
  /\ \E loaded \in BOOLEAN, company_count \in CompanyCounts :
       IF loaded
       THEN /\ driver' = Get(driver, "listing", 1)
            /\ page_count' = get_page_count(company_count, COUNT)
            /\ cpc' = "pages"
            /\ UNCHANGED crash
       ELSE /\ Crashes("load")
            /\ UNCHANGED << driver, page_count >>
  /\ UNCHANGED << catalog, page, company, visits, persisted >>
  /\ UNCHANGED << syncVars, storeVars, fnVars >>

\* range(1, page_count + 1) with page_count None: TypeError.
CrawlNoPageCount ==
  /\ cpc = "pages"
  /\ page_count = NoneInt
  /\ Crashes("page_count")
  /\ UNCHANGED << catalog, page_count, page, company, driver, visits, persisted >>
  /\ UNCHANGED << syncVars, storeVars, fnVars >>

\* The head of the page loop and the loop body up to the call of
\* augment_companies_with_contacts: the page is loaded and its containers
\* are extracted.
CrawlPage ==
  /\ cpc = "pages"
  /\ page_count # NoneInt
  /\ page < page_count
  /\ page' = page + 1
  /\ \E loaded \in BOOLEAN :
       IF loaded
       THEN /\ driver' = Get(driver, "listing", page + 1)
            /\ companies_list' = ListingPage(catalog, page + 1)
            /\ company' = 0
            /\ cpc' = "augment"
            /\ UNCHANGED crash
       ELSE /\ Crashes("load")
            /\ UNCHANGED << driver, companies_list, company >>
  /\ UNCHANGED << catalog, page_count, visits, persisted >>
  /\ UNCHANGED << stored, spc, number, stored0, lastWrite, lastCommitted, dbconn >>
  /\ UNCHANGED << syncVars, fnVars >>

\* The page loop is over; the last cell closes the browser window.
CrawlEnd ==
  /\ cpc = "pages"
  /\ page_count # NoneInt
  /\ page >= page_count
  /\ driver' = Close(driver)
  /\ cpc' = "done"
  /\ UNCHANGED << catalog, page_count, page, company, crash, visits, persisted >>
  /\ UNCHANGED << syncVars, storeVars, fnVars >>

\* augment_companies_with_contacts, the loop body up to the try: a company
\* without url is passed over, for any other a tab is opened.
AugmentOpen ==
  /\ cpc = "augment"
  /\ company < Len(companies_list)
  /\ company' = company + 1
  /\ LET url == companies_list[company + 1].url IN
       IF url = Null \/ Strip(url) = Empty
       THEN UNCHANGED << driver, cpc >>
       ELSE driver' = NewWindow(driver) /\ cpc' = "detail"
  /\ UNCHANGED << catalog, page_count, page, crash, visits, persisted >>
  /\ UNCHANGED << syncVars, storeVars, fnVars >>

\* The try body: driver.get(url) and the reading of the page; it raises
\* (a page-load timeout, a lost page) or sets the contact keys it found.
AugmentVisit ==
  /\ cpc = "detail"
  /\ driver' = Get(driver, "detail", 0)
  /\ \E raised \in BOOLEAN :
       /\ visits' = Append(visits, Visit(page, company, ~raised))
       /\ IF raised
          THEN /\ cpc' = "finally_raise"
               /\ UNCHANGED companies_list
          ELSE /\ cpc' = "finally"
               /\ companies_list' =
                    [companies_list EXCEPT
                       ![company] = Enriched(@, DetailPage(@.url))]
  /\ UNCHANGED << catalog, page_count, page, company, crash, persisted >>
  /\ UNCHANGED << stored, spc, number, stored0, lastWrite, lastCommitted, dbconn >>
  /\ UNCHANGED << syncVars, fnVars >>

\* The finally: driver.close(), driver.switch_to.window(original_window);
\* then the next company, or the exception of the try body goes on, out of
\* the function and out of the page loop.
AugmentFinally ==
  /\ cpc \in {"finally", "finally_raise"}
  /\ driver' = SwitchTo(Close(driver), "original")
  /\ IF cpc = "finally"
     THEN cpc' = "augment" /\ UNCHANGED crash
     ELSE Crashes("enrich")
  /\ UNCHANGED << catalog, page_count, page, company, visits, persisted >>
  /\ UNCHANGED << syncVars, storeVars, fnVars >>

\* The for loop of augment_companies_with_contacts is over when the last
\* company of the list has been taken.
AugmentDone_Early(n, list) == TRUE
AugmentDone(n, list) == n = Len(list)

\* augment_companies_with_contacts returns and store_companies is called
\* with the list of the page.
CrawlStore ==
  /\ cpc = "augment"
  /\ AugmentDone(company, companies_list)
  /\ cpc' = "store"
  /\ EnterStore
  /\ UNCHANGED << stored, companies_list, lastWrite, lastCommitted >>
  /\ UNCHANGED << catalog, page_count, page, company, driver, crash, visits,
                  persisted >>
  /\ UNCHANGED << syncVars, fnVars >>

\* store_companies returned: the page is persisted, on to the next one.
CrawlStored ==
  /\ cpc = "store"
  /\ spc = "returned"
  /\ persisted' = persisted \cup {page}
  /\ cpc' = "pages"
  /\ UNCHANGED << catalog, page_count, page, company, driver, crash, visits >>
  /\ UNCHANGED << syncVars, storeVars, fnVars >>

\* store_companies raised: the exception ends the page loop.
CrawlStoreRaised ==
  /\ cpc = "store"
  /\ spc = "raised"
  /\ Crashes("store")
  /\ UNCHANGED << catalog, page_count, page, company, driver, visits, persisted >>
  /\ UNCHANGED << syncVars, storeVars, fnVars >>

\* A crawl of a directory of up to MaxCompanies companies into an empty
\* table.
InitCrawl ==
  /\ SyncIdle
  /\ StoreIdle
  /\ FnIdle
  /\ catalog \in Catalogs
  /\ page_count = 0
  /\ page = 0
  /\ company = 0
  /\ driver = Browser(0, "original", "blank", 0)
  /\ cpc = "start"
  /\ crash = "none"
  /\ visits = <<>>
  /\ persisted = {}

NextCrawl ==
  \/ CrawlStart
  \/ CrawlNoPageCount
  \/ CrawlPage
  \/ CrawlEnd
  \/ AugmentOpen
  \/ AugmentVisit
  \/ AugmentFinally
  \/ CrawlStore
  \/ StoreConnect
  \/ StoreWrite
  \/ StoreReturn
  \/ CrawlStored
  \/ CrawlStoreRaised

SpecCrawl == InitCrawl /\ [][NextCrawl]_vars

\* ------------------------------------------------------ claims on the crawl
\* Where the crawl is inside the try ... finally of one company.
InVisit == cpc \in {"detail", "finally", "finally_raise"}

\* C19: the tab of a detail page is open only while that page is visited:
\* when the next company starts and when augment_companies_with_contacts is
\* left, by return or by exception, no tab is open and the focus is on the
\* original window; never is more than one tab open, and the original window
\* shows the listing page throughout.
C19_TabScopedToVisit ==
  /\ driver.tabs <= 1
  /\ InVisit => driver.tabs = 1 /\ driver.focus = "tab"
  /\ cpc \in {"augment", "store", "pages", "crashed"} =>
       driver.tabs = 0 /\ driver.focus = "original"
  /\ driver.original # "detail"
  /\ (InVisit \/ cpc \in {"augment", "store"}) =>
       driver.original = "listing" /\ driver.shown = page

\* The visit of the second company of a page raised after the first went
\* through; the function was left with no tab open and the focus restored.
C19_Witness ==
  /\ cpc = "crashed"
  /\ crash = "enrich"
  /\ Len(visits) = 2
  /\ visits[1].ok
  /\ ~visits[2].ok
  /\ visits[2].company = 2
  /\ driver = Browser(0, "original", "listing", 1)

\* C20: a detail-page visit that raised leaves the contact keys of its
\* company unset and does not end the crawl: no crawl stops on an exception
\* of the enrichment, and a crawl that is over after a visit raised has
\* persisted the page of that visit and gone through every page.
C20_EnrichmentFailureTolerated ==
  /\ \A i \in 1..Len(visits) :
       (~visits[i].ok /\ visits[i].page = page) =>
         LET c == companies_list[visits[i].company] IN
           c.email = Null /\ c.phone = Null /\ c.website = Null
  /\ crash # "enrich"
  /\ \A i \in 1..Len(visits) :
       (~visits[i].ok /\ cpc \in {"crashed", "done"}) =>
         /\ visits[i].page \in persisted
         /\ page = page_count

\* The detail url a visit went to.
VisitUrl(v) == ListingPage(catalog, v.page)[v.company].url

\* The (page, position) pairs of the dicts handed to an INSERT that went
\* through: all those of a persisted page, and the first `number` of the page
\* being stored.
Emitted ==
  { pos \in (1..page) \X (1..COUNT) :
      /\ pos[2] <= Len(ListingPage(catalog, pos[1]))
      /\ \/ pos[1] \in persisted
         \/ pos[1] = page /\ cpc = "store" /\ pos[2] <= number }

\* C21: within one crawl no detail url is visited twice and no detail url is
\* handed to the INSERT twice, whatever the listing pages repeat.
C21_EachUrlOnce ==
  /\ \A i, n \in 1..Len(visits) :
       i # n => VisitUrl(visits[i]) # VisitUrl(visits[n])
  /\ \A a, b \in Emitted :
       a # b => ListingPage(catalog, a[1])[a[2]].url #
                ListingPage(catalog, b[1])[b[2]].url

\* C22: the page loop ends at the first of: the page index passing
\* page_count, or a fetched page without containers; so no page is fetched
\* after a page that had no container, no page beyond page_count is fetched,
\* and a missing count (page_count None) does not end the crawl in an error.
C22_LoopEndsAtFirstStop ==
  /\ crash # "page_count"
  /\ page_count # NoneInt => page <= page_count
  /\ page >= 2 => ListingPage(catalog, page - 1) # << >>

\* C23: a directory whose page 1 yields no result container gives no detail
\* visit and no record for the INSERT, and the crawl does not end in an error
\* of its own (a failing page load or database is not the crawl's error).
C23_EmptyDirectoryEndsNormally ==
  ListingPage(catalog, 1) = << >> =>
    /\ visits = << >>
    /\ Emitted = {}
    /\ stored = << >>
    /\ crash \in {"none", "load", "store"}

\* The companies of the page in hand have all been visited, and each visit
\* went through.
PageEnriched ==
  /\ company = Len(companies_list)
  /\ \A n \in 1..Len(companies_list) :
       \E i \in 1..Len(visits) : visits[i] = Visit(page, n, TRUE)

\* C25: per page the order is fetch, extract, enrich, persist: the database
\* is only touched for a page whose records have all been enriched, a page
\* counts as persisted only after that, and a page is fetched only when all
\* pages before it are persisted.
C25_PageStepsInOrder ==
  /\ spc \in {"connect", "loop"} => cpc = "store"
  /\ cpc = "store" => PageEnriched
  /\ page \in persisted => PageEnriched
  /\ \A p \in 1..(page - 1) : p \in persisted
  /\ \A p \in persisted : p <= page

C25_Witness ==
  /\ page = 2
  /\ cpc = "store"
  /\ spc = "loop"
  /\ number = 1
  /\ Len(visits) = 3

\* The visit of company n of the page in hand went through.
VisitedOk(n) == \E i \in 1..Len(visits) : visits[i] = Visit(page, n, TRUE)

\* C30: the enrichment changes the contact keys only: every dict of the list
\* keeps the name, url, address, nip and regon extract_companies gave it, a
\* dict not visited with success has no contact key, and a visited dict has
\* no key for a container its detail page lacks.
C30_OnlyContactKeysChange ==
  (page >= 1 /\ crash # "load") =>
    /\ Len(companies_list) = Len(ListingPage(catalog, page))
    /\ \A n \in 1..Len(companies_list) :
         LET c == companies_list[n]
             listed == ListingPage(catalog, page)[n]
             d == DetailPage(c.url)
         IN  /\ c.name = listed.name
             /\ c.url = listed.url
             /\ c.address = listed.address
             /\ c.nip = listed.nip
             /\ c.regon = listed.regon
             /\ ~VisitedOk(n) =>
                  c.email = Null /\ c.phone = Null /\ c.website = Null
             /\ ~d.email.present => c.email = Null
             /\ ~d.phone.present => c.phone = Null
             /\ ~d.site.present => c.website = Null

C30_Witness ==
  /\ page = 1
  /\ cpc = "augment"
  /\ company = 2
  /\ companies_list[1].url = UrlA
  /\ companies_list[1].email = EmailXY
  /\ companies_list[1].phone = Null
  /\ companies_list[2].url = UrlB
  /\ companies_list[2].phone = Phone123
  /\ companies_list[2].website = Null

\* ------------------------------------------- the runs that use the database
\* A run of the pipeline is a sync run (run_http.py, run_sdk.py) over a
\* table of up to MaxRowsRun rows, or a crawl (main.py).
MaxRowsRun == 2

InitRun ==
  \/ Init /\ Len(table) <= MaxRowsRun
  \/ InitCrawl

NextRun == Next \/ NextCrawl

SpecRun == InitRun /\ [][NextRun]_vars

\* The run is over: the sync run returned or raised, the crawl ran through
\* or ended in an exception.
RunEnded ==
  \/ pc \in {"done", "failed"}
  \/ cpc \in {"done", "crashed"}

\* C24: a database connection is open only while yield_emails_from_db reads
\* the rows or store_companies runs its loop, so no run ends, in success or
\* in failure, with a connection open.
C24_NoConnectionLeftOpen ==
  /\ RunEnded => dbconn # "open"
  /\ dbconn = "open" => pc = "fetch" \/ (cpc = "store" /\ spc = "loop")

\* Runs that ended after a connection was opened: a sync run whose query
\* raised, and a crawl whose INSERT raised on the second page.
C24_Witness ==
  \/ pc = "failed" /\ dbconn = "closed"
  \/ cpc = "crashed" /\ crash = "store" /\ dbconn = "closed" /\ page = 2

\* -------------------------------------------------- the pure functions
\* The header of a listing page: whether the span "Baza firm" is there,
\* whether a span of class tab-header-count follows it, and that span's text.
Header(baza, count, text) == [baza |-> baza, count |-> count, text |-> text]

\* U+00A0, the no-break space the directory groups thousands with.
Nbsp == "nbsp"

\* str.replace(c, ""): every c removed.
RECURSIVE Without(_, _)
Without(s, c) ==
  IF s = << >> THEN << >>
  ELSE IF s[1] = c THEN Without(Tail(s), c)
  ELSE << s[1] >> \o Without(Tail(s), c)

\* str.isdigit(): not empty, decimal digits only.
IsDigit(s) ==
  s # << >> /\ \A i \in 1..Len(s) : \E d \in 1..Len(DigitChars) : s[i] = DigitChars[d]

\* int(text) of a text of decimal digits.
RECURSIVE IntOf(_)
IntOf(s) ==
  IF s = << >> THEN 0
  ELSE IntOf(SubSeq(s, 1, Len(s) - 1)) * 10
       + (CHOOSE d \in 0..9 : DigitChars[d + 1] = s[Len(s)])

get_company_count(soup) ==
  IF ~soup.baza THEN NoneInt
  ELSE IF ~soup.count THEN NoneInt
  ELSE LET text == Without(Without(Strip(soup.text), " "), Nbsp) IN
         IF IsDigit(text) THEN IntOf(text) ELSE NoneInt

\* str(n) for 0 <= n < 100.
Decimal(n) ==
  IF n < 10 THEN << DigitChars[n + 1] >>
  ELSE << DigitChars[(n \div 10) + 1], DigitChars[(n % 10) + 1] >>

\* The largest count a header shows and the largest page size.
MaxTotal == 12
MaxPerPage == 4

\* The headers drawn: none, one without the count span, the counts up to
\* MaxTotal plain, padded and grouped the way the directory prints them, and
\* texts that are no number.
Headers ==
  { Header(FALSE, FALSE, << >>), Header(TRUE, FALSE, << >>),
    Header(TRUE, TRUE, << >>), Header(TRUE, TRUE, << "1", "a" >>),
    Header(TRUE, TRUE, << "-", "1" >>),
    Header(TRUE, TRUE, << "1", Nbsp, "0" >>),
    Header(TRUE, TRUE, << "1", " ", "2" >>) }
  \cup { Header(TRUE, TRUE, Decimal(n)) : n \in 0..MaxTotal }
  \cup { Header(TRUE, TRUE, << " " >> \o Decimal(n) \o << "\n" >>) : n \in {0, 7} }

\* The addresses valid_email is called with: local parts and domains of
\* every kind put together, and texts that are no address.
At == << "@" >>
LocalInfo == << "i", "n", "f", "o" >>
LocalSupport == << "s", "u", "p", "p", "o", "r", "t" >>
LocalAdmin == << "a", "d", "m", "i", "n" >>
LocalNoReply == << "n", "o", "-", "r", "e", "p", "l", "y" >>
LocalNoreply == << "n", "o", "r", "e", "p", "l", "y" >>
LocalJan == << "j", "a", "n", ".", "k", "o", "w", "a", "l", "s", "k", "i" >>
DomainFirma == << "f", "i", "r", "m", "a", ".", "p", "l" >>
NotAnEmail == << "n", "o", "t", "-", "a", "n", "-", "e", "m", "a", "i", "l" >>
Locals ==
  { LocalInfo, LocalSupport, LocalAdmin, LocalNoReply, LocalNoreply, LocalJan,
    << "I", "n", "F", "O" >>, << "x" >> \o LocalInfo, LocalInfo \o << "1" >>,
    LocalInfo \o << ".", "x" >>, LocalAdmin \o << "s" >>,
    << "b", "o", "k" >> \o LocalSupport, << "a" >>, << >>, << "a", " " >> }
Domains ==
  { DomainFirma, << "x", ".", "c" >>, << "x", "c" >>, << "x", "." >>,
    << ".", "c" >>, LocalInfo \o << ".", "p", "l" >>, << "x", ".", "c", "\n" >>,
    << "x", "@", "y", ".", "c" >> }
Addresses ==
  { l \o At \o d : l \in Locals, d \in Domains } \cup { NotAnEmail, << >> }

\* The values _norm_site is called with.
SitePl == << "a", ".", "p", "l" >>
Http == << "h", "t", "t", "p", ":", "/", "/" >>
ExampleCom == << "e", "x", "a", "m", "p", "l", "e", ".", "c", "o", "m" >>
Sites ==
  { Null, Empty, << " " >>, SitePl, << " " >> \o SitePl \o << " " >>,
    SitePl \o << "/" >>, SitePl \o << "/", "/" >>, Https \o SitePl,
    Https \o SitePl \o << "/" >>, Http \o SitePl, Http \o SitePl \o << "/", "x" >>,
    ExampleCom, Https \o ExampleCom \o << "/" >>, Https \o ExampleCom,
    << "a" >> \o At \o SitePl, << " ", "a" >> \o At \o SitePl \o << " " >>,
    << "a" >> \o At \o << "b" >>, Mailto \o << "a" >> \o At \o SitePl }

\* What a finished call returned.
Ret(value) == [done |-> TRUE, value |-> value]

\* valid_email(email).
CallValidEmail ==
  /\ call.fn = "valid_email"
  /\ ~ret.done
  /\ ret' = Ret(valid_email(call.email))
  /\ UNCHANGED << call, syncVars, mainVars, regVars, apiVars >>

\* _norm_site(url).
CallNormSite ==
  /\ call.fn = "norm_site"
  /\ ~ret.done
  /\ ret' = Ret(norm_site(call.url))
  /\ UNCHANGED << call, syncVars, mainVars, regVars, apiVars >>

\* company_count = get_company_count(soup);
\* page_count = get_page_count(company_count, COUNT), for any page size.
CallPageCount ==
  /\ call.fn = "get_page_count"
  /\ ~ret.done
  /\ LET company_count == get_company_count(call.soup) IN
       ret' = Ret([company_count |-> company_count,
                   page_count |-> get_page_count(company_count,
                                                 call.company_per_page)])
  /\ UNCHANGED << call, syncVars, mainVars, regVars, apiVars >>

InitFn ==
  /\ SyncIdle
  /\ MainIdle
  /\ RegIdle
  /\ ApiIdle
  /\ ret = NoRet
  /\ \/ call \in { [fn |-> "valid_email", email |-> e] : e \in Addresses }
     \/ call \in { [fn |-> "norm_site", url |-> u] : u \in Sites }
     \/ call \in { [fn |-> "get_page_count", soup |-> h, company_per_page |-> n] :
                     h \in Headers, n \in 1..MaxPerPage }

NextFn == CallValidEmail \/ CallNormSite \/ CallPageCount

SpecFn == InitFn /\ [][NextFn]_vars

\* ------------------------------------------- claims on the pure functions
\* The deny-list words, and the part of an address before its first "@"
\* (all of it without one).
DenyWords == { LocalSupport, LocalInfo, LocalAdmin, LocalNoReply, LocalNoreply }
LocalPart(s) ==
  LET ats == { i \in 1..Len(s) : s[i] = "@" } IN
    IF ats = {} THEN s
    ELSE SubSeq(s, 1, (CHOOSE i \in ats : \A n \in ats : i <= n) - 1)
EndsWith(s, t) ==
  Len(t) <= Len(s) /\ SubSeq(s, Len(s) - Len(t) + 1, Len(s)) = t

\* C26 as stated: valid_email is true exactly for a text that matches
\* EMAIL_RE and whose lowercased part before the "@" contains none of the
\* deny-list words.
C26_DenyWordAnywhereInLocalPart ==
  (call.fn = "valid_email" /\ ret.done) =>
    ret.value =
      ( /\ EmailReMatch(call.email)
        /\ \A w \in DenyWords : ~Contains(LowerSeq(LocalPart(call.email)), w) )

\* C26 amended: valid_email is true exactly for a text that matches EMAIL_RE
\* and whose lowercased part before the "@" ends with none of the deny-list
\* words; info@firma.pl is false, jan.kowalski@firma.pl true, not-an-email
\* false.
C26_DenyWordEndsLocalPart ==
  (call.fn = "valid_email" /\ ret.done) =>
    /\ ret.value =
         ( /\ EmailReMatch(call.email)
           /\ \A w \in DenyWords : ~EndsWith(LowerSeq(LocalPart(call.email)), w) )
    /\ call.email = LocalInfo \o At \o DomainFirma => ~ret.value
    /\ call.email = LocalJan \o At \o DomainFirma => ret.value
    /\ call.email = NotAnEmail => ~ret.value

\* An address with a deny-list word inside its local part, not at its end,
\* was found valid.
C26_Witness ==
  /\ call.fn = "valid_email"
  /\ ret.done
  /\ call.email = LocalInfo \o << "1" >> \o At \o DomainFirma
  /\ ret.value

\* One trailing slash removed.
DropSlash(s) ==
  IF Len(s) > 0 /\ s[Len(s)] = "/" THEN SubSeq(s, 1, Len(s) - 1) ELSE s

\* C27: _norm_site gives None for an empty value and for an email address,
\* and otherwise the stripped value, with https:// in front when it has no
\* scheme, less one trailing slash; example.com and https://example.com/
\* both give https://example.com.
C27_SiteNormalised ==
  (call.fn = "norm_site" /\ ret.done) =>
    LET t == Strip(call.url) IN
      ret.value =
        IF call.url = Null \/ call.url = Empty THEN Null
        ELSE IF SiteEmailMatch(t) THEN Null
        ELSE DropSlash(IF HasScheme(t) THEN t ELSE Https \o t)

\* C28: get_page_count is the ceiling of company_count / company_per_page,
\* the least number of pages of that size that hold company_count companies,
\* and both counts are None when the header lacks the count element.
C28_PageCountIsCeiling ==
  (call.fn = "get_page_count" /\ ret.done) =>
    LET total == ret.value.company_count
        pages == ret.value.page_count
        size == call.company_per_page
    IN  /\ total # NoneInt =>
              /\ pages # NoneInt
              /\ pages * size >= total
              /\ (pages - 1) * size < total
        /\ (~call.soup.baza \/ ~call.soup.count) =>
              total = NoneInt /\ pages = NoneInt
        /\ (call.soup.baza /\ call.soup.count
              /\ \E n \in 0..MaxTotal : call.soup.text = Decimal(n)) =>
              call.soup.text = Decimal(total)

\* Eleven companies in pages of four make three pages.
C28_Witness ==
  /\ call.fn = "get_page_count"
  /\ ret.done
  /\ call.soup = Header(TRUE, TRUE, << "1", "1" >>)
  /\ call.company_per_page = 4
  /\ ret.value.company_count = 11
  /\ ret.value.page_count = 3

\* ------------------------------------------------ claims on both adapters
\* What the HTTP adapter's loop decides in attempt n on the API answer of
\* POST event e (with a JSON body, where it reads one).
HttpOn(e) ==
  HttpStep(curEmail, e.n, NoErr,
           [net |-> e.net, status |-> e.status, body |-> Dict(0, 0)],
           TRUE, cfg.retry_backoff_base)

\* What the loop of the call in progress did after the POST events[i]: it
\* slept and went on, or the call returned or raised.
DidAfter(i) ==
  IF i < Len(events) THEN "continue"
  ELSE IF callResult.kind = "returned" THEN "return"
  ELSE "raise"

TransientPosts ==
  { i \in 1..Len(events) : IsPost(events[i]) /\ TransientOutcome(events[i]) }

\* C32: the HTTP adapter sleeps after every transient outcome, the one of the
\* last attempt included: a 429/5xx answer or a transport failure in attempt
\* n is followed at once by a sleep of retry_backoff_base * 2^(n-1), and the
\* call has as many sleeps as transient outcomes.
C32_SleepAfterEveryTransient ==
  adapter = "http" =>
    /\ \A i \in TransientPosts :
         /\ i < Len(events)
         /\ IsSleep(events[i + 1])
         /\ events[i + 1].dur = cfg.retry_backoff_base * 2 ^ (events[i].n - 1)
    /\ Len(Sleeps) = Cardinality(TransientPosts)

\* The call of the HTTP adapter ended on a terminal status: its last POST was
\* answered 422 or a status without a branch.
EndedOnTerminalStatus ==
  /\ adapter = "http"
  /\ CallEnded
  /\ Posts # << >>
  /\ ~Posts[Len(Posts)].net
  /\ HttpStatusClass(Posts[Len(Posts)].status) \in {"invalid", "unexpected"}

\* C33: a call of the HTTP adapter that ends on a terminal status raises; it
\* raises the generic failure only when no attempt had a transport failure,
\* and the error of an earlier transport failure when there was one; a call
\* that used up its attempts on 429/5xx answers only raises the generic
\* failure.
C33_TerminalRaisesEarlierTransportError ==
  /\ EndedOnTerminalStatus =>
       /\ callResult.kind = "raised"
       /\ callResult.err = GenericErr => RecordedAttempts = {}
       /\ RecordedAttempts # {} =>
            /\ callResult.err.k = "transport"
            /\ callResult.err.n \in RecordedAttempts
  /\ ( /\ adapter = "http"
       /\ CallEnded
       /\ Len(Posts) = cfg.retry_count
       /\ \A i \in 1..Len(Posts) :
            \E s \in TransientStatuses : Answered(Posts[i], s) )
     => callResult = Result("raised", NoResp, GenericErr)

\* C34: with retry_count <= 0 a call of upsert_subscriber, of either
\* adapter, makes no POST and no sleep, never returns a response, and ends by
\* raising the generic failure.
C34_NoAttemptRaisesGeneric ==
  cfg.retry_count <= 0 =>
    /\ events = << >>
    /\ callResult.kind # "returned"
    /\ CallEnded => callResult = Result("raised", NoResp, GenericErr)

\* Calls with a negative retry_count that ended, one of each adapter.
C34_Witness ==
  /\ cfg.retry_count < 0
  /\ CallEnded
  /\ callResult.err = GenericErr
  /\ events = << >>

\* ------------------------------------------------- the length of a whole run

\* The largest table of the runs whose requests are counted.
MaxRowsLive == 2

\* main() of run_http.py with the API requests counted from 0, QUERY_LIMIT
\* unset: the run takes every row of the table.
InitLive ==
  /\ MainStart(0)
  /\ adapter = "http"
  /\ Len(table) <= MaxRowsLive
  /\ cfg.query_limit = 0

\* The steps of run_http.py: those of the run with HttpAdapter.
NextLive ==
  \/ AdapterInit
  \/ RunSyncConnect
  \/ RunSyncFetch
  \/ LoopSkip
  \/ LoopUpsert
  \/ RunSyncEnd
  \/ HttpAttempt
  \/ UpsertExhausted
  \/ AfterUpsert
  \/ AssignToGroup

\* The program is one sequential process: every request has a timeout and
\* every sleep is finite, so a step that can be taken is taken.
SpecLive == InitLive /\ [][NextLive]_vars /\ WF_vars(NextLive)

\* C35: a run of run_sync with HttpAdapter reaches its end, and at every
\* moment it has made at most retry_count + 1 requests for each record it
\* has started, hence at most |rows| * (retry_count + 1) in all.
C35_RunEndsWithinRequestBound ==
  /\ <>(pc \in {"done", "failed"})
  /\ [](/\ requests <= idx * (cfg.retry_count + 1)
        /\ requests <= Len(raw_emails) * (cfg.retry_count + 1))

\* A finished run that spent the whole budget: every record took retry_count
\* upsert attempts and one group assignment.
C35_Witness ==
  /\ adapter = "http"
  /\ pc = "done"
  /\ Len(raw_emails) = MaxRowsLive
  /\ requests = Len(raw_emails) * (cfg.retry_count + 1)
  /\ requests > 0

\* ------------------------------------ the registry sync (biznesgovpl_sync.py)

\* The most rows of the connections table, and the most calls of
\* upsert_biznesgovpl made from outside sync_all_missing.
MaxConn == 2
MaxDirect == 2

\* connections.nip: NULL, the "" that main.py stores for a company without a
\* tax-id tag, or a number.
NipA == << "5", "2" >>
NipB == << "7", "1" >>
NipPool == { Null, Empty, NipA, NipB }

\* nip TEXT UNIQUE: no two rows share a nip that is not NULL.  The id of a
\* row is its position.
ConnectionTables ==
  { t \in UNION { [1..n -> NipPool] : n \in 0..MaxConn } :
      \A i, j \in 1..Len(t) : (i # j /\ t[i] # Null) => t[i] # t[j] }

\* A firm object of the registry: a dict, here the set of its items.
FirmOld == { << "nazwa", "OLD" >> }
FirmA == { << "nazwa", "A" >> }
FirmB == { << "nazwa", "B" >>, << "status", "AKTYWNY" >> }
EmptyObj == { }
Firms == { FirmA, FirmB }

\* if data: / if not data: a dict is true when it has an item.
Truthy(d) == d # EmptyObj

\* if not nip: "connection ... has no NIP" (sync_one_by_connection_id).
HasNip(n) == n # Null /\ n # Empty

\* fetch_ceidg_by_nip: None (404, 204, no items), items[0], or an exception
\* (no token, transport failure, raise_for_status, resp.json()).
FetchOutcomes ==
  { [kind |-> "none", item |-> EmptyObj], [kind |-> "raised", item |-> EmptyObj] }
    \cup { [kind |-> "item", item |-> d] : d \in Firms \cup { EmptyObj } }
ReturnedData(out) == out.kind = "item" /\ Truthy(out.item)

BizRow(cid, d) == [connection_id |-> cid, data |-> d]
HasRow(biz, cid) == \E i \in 1..Len(biz) : biz[i].connection_id = cid

\* The biznesgovpl tables a run can find: a row for some of the connections.
BizTables(conn) ==
  { LET Kept(r) == r.connection_id \in S
    IN  SelectSeq([i \in 1..Len(conn) |-> BizRow(i, FirmOld)], Kept) :
      S \in SUBSET (1..Len(conn)) }

\* SELECT c.id, c.nip FROM connections c LEFT JOIN biznesgovpl b
\*   ON b.connection_id = c.id
\* WHERE b.id IS NULL AND c.nip IS NOT NULL ORDER BY c.id LIMIT %s
SqlMissing(conn, biz, n) ==
  LET Where(r) == ~HasRow(biz, r.id) /\ r.nip # Null
      found == SelectSeq([i \in 1..Len(conn) |-> [id |-> i, nip |-> conn[i]]], Where)
  IN  IF n < Len(found) THEN SubSeq(found, 1, n) ELSE found

Limits == -1..MaxConn

\* INSERT INTO biznesgovpl (connection_id, data) VALUES (%s, %s::jsonb)
\* ON CONFLICT (connection_id) DO UPDATE SET data = EXCLUDED.data, ...
Upsert(biz, cid, d) ==
  IF HasRow(biz, cid)
  THEN [i \in 1..Len(biz) |->
          IF biz[i].connection_id = cid THEN BizRow(cid, d) ELSE biz[i]]
  ELSE Append(biz, BizRow(cid, d))

\* connection_id INTEGER ... REFERENCES connections(id)
ForeignKeyOk(conn, cid) == cid \in 1..Len(conn)

UpsertCall(cid, d, by) == [connection_id |-> cid, data |-> d, by |-> by]

\* sync_all_missing(limit, backoff) is called.
InitReg ==
  /\ SyncIdle
  /\ MainIdle
  /\ call = NoCall
  /\ ret = NoRet
  /\ ApiIdle
  /\ connections \in ConnectionTables
  /\ biznesgovpl \in BizTables(connections)
  /\ sync_limit \in Limits
  /\ fetched_rows = << >>
  /\ rpos = 0
  /\ upserted = 0
  /\ rpc = "start"
  /\ rret = 0
  /\ bizAtQuery = << >>
  /\ fetchLog = << >>
  /\ upsertCalls = << >>
  /\ direct = 0

\* count = 0; the connection, the query, rows = cur.fetchall().  The connection
\* can fail, and the server rejects a negative LIMIT.
SyncQuery ==
  /\ rpc = "start"
  /\ \E connected \in BOOLEAN :
       IF connected /\ sync_limit >= 0
       THEN /\ fetched_rows' = SqlMissing(connections, biznesgovpl, sync_limit)
            /\ bizAtQuery' = biznesgovpl
            /\ rpos' = 1
            /\ upserted' = 0
            /\ rpc' = "loop"
       ELSE /\ rpc' = "raised"
            /\ UNCHANGED << fetched_rows, bizAtQuery, rpos, upserted >>
  /\ UNCHANGED << connections, biznesgovpl, sync_limit, rret, fetchLog,
                  upsertCalls, direct >>
  /\ UNCHANGED << syncVars, mainVars, call, ret, apiVars >>

\* One pass of `for row in rows`: the fetch, and the upsert when data is true.
SyncRow ==
  /\ rpc = "loop"
  /\ rpos <= Len(fetched_rows)
  /\ \E out \in FetchOutcomes, committed \in BOOLEAN :
       LET row == fetched_rows[rpos] IN
       /\ fetchLog' = Append(fetchLog, [id |-> row.id, nip |-> row.nip, out |-> out])
       /\ IF out.kind = "raised"
          THEN /\ rpc' = "raised"
               /\ UNCHANGED << biznesgovpl, upsertCalls, upserted, rpos >>
          ELSE IF out.kind = "item" /\ Truthy(out.item)
          THEN IF committed /\ ForeignKeyOk(connections, row.id)
               THEN /\ biznesgovpl' = Upsert(biznesgovpl, row.id, out.item)
                    /\ upsertCalls' = Append(upsertCalls,
                                             UpsertCall(row.id, out.item, "sync"))
                    /\ upserted' = upserted + 1
                    /\ rpos' = rpos + 1
                    /\ rpc' = "loop"
               ELSE /\ rpc' = "raised"
                    /\ UNCHANGED << biznesgovpl, upsertCalls, upserted, rpos >>
          ELSE /\ rpos' = rpos + 1
               /\ rpc' = "loop"
               /\ UNCHANGED << biznesgovpl, upsertCalls, upserted >>
  /\ UNCHANGED << connections, sync_limit, fetched_rows, rret, bizAtQuery, direct >>
  /\ UNCHANGED << syncVars, mainVars, call, ret, apiVars >>

\* print(f"[DONE] Upserted {count} rows"); return count
SyncReturn ==
  /\ rpc = "loop"
  /\ rpos > Len(fetched_rows)
  /\ rpc' = "returned"
  /\ rret' = upserted
  /\ UNCHANGED << connections, biznesgovpl, sync_limit, fetched_rows, rpos,
                  upserted, bizAtQuery, fetchLog, upsertCalls, direct >>
  /\ UNCHANGED << syncVars, mainVars, call, ret, apiVars >>

\* upsert_biznesgovpl(connection_id, json_data) called by itself, as
\* sync_one_by_connection_id does, once sync_all_missing is over.
UpsertBiznesgovpl ==
  /\ rpc \in {"returned", "raised"}
  /\ direct < MaxDirect
  /\ direct' = direct + 1
  /\ \E cid \in 1..MaxConn, d \in Firms, committed \in BOOLEAN :
       IF committed /\ ForeignKeyOk(connections, cid)
       THEN /\ biznesgovpl' = Upsert(biznesgovpl, cid, d)
            /\ upsertCalls' = Append(upsertCalls, UpsertCall(cid, d, "direct"))
       ELSE UNCHANGED << biznesgovpl, upsertCalls >>
  /\ UNCHANGED << connections, sync_limit, fetched_rows, rpos, upserted, rpc,
                  rret, bizAtQuery, fetchLog >>
  /\ UNCHANGED << syncVars, mainVars, call, ret, apiVars >>

NextReg == SyncQuery \/ SyncRow \/ SyncReturn \/ UpsertBiznesgovpl

SpecReg == InitReg /\ [][NextReg]_vars

\* ------------------------------------------------ claims on the registry sync
SyncCalls ==
  LET BySync(c) == c.by = "sync" IN SelectSeq(upsertCalls, BySync)
WithData ==
  LET Gave(e) == ReturnedData(e.out) IN SelectSeq(fetchLog, Gave)
RowsOf(cid) == { i \in 1..Len(biznesgovpl) : biznesgovpl[i].connection_id = cid }
CallsOf(cid) == { i \in 1..Len(upsertCalls) : upsertCalls[i].connection_id = cid }
Latest(S) == CHOOSE i \in S : \A j \in S : j <= i

\* The rows taken have no biznesgovpl row at query time.
TakenWereMissing == \A k \in 1..Len(fetchLog) : ~HasRow(bizAtQuery, fetchLog[k].id)

\* At most limit rows, in id order, taken in that order.
TakenInIdOrder ==
  rpc \in {"loop", "returned"} \/ fetchLog # << >> =>
    /\ Len(fetched_rows) <= sync_limit
    /\ \A i, j \in 1..Len(fetched_rows) : i < j => fetched_rows[i].id < fetched_rows[j].id
    /\ Len(fetchLog) <= Len(fetched_rows)
    /\ \A k \in 1..Len(fetchLog) : fetchLog[k].id = fetched_rows[k].id

\* One upsert for each row the registry returned data for, none for another,
\* and the number of them returned.
OneUpsertPerData ==
  /\ Len(SyncCalls) <= Len(WithData)
  /\ \A k \in 1..Len(SyncCalls) :
       /\ SyncCalls[k].connection_id = WithData[k].id
       /\ SyncCalls[k].data = WithData[k].out.item
  /\ rpc = "returned" =>
       /\ Len(SyncCalls) = Len(WithData)
       /\ Len(fetchLog) = Len(fetched_rows)
       /\ rret = Len(SyncCalls)

\* At most one row per connection_id, holding the data of the latest call.
OneRowPerConnection ==
  \A cid \in 1..MaxConn :
    /\ Cardinality(RowsOf(cid)) <= 1
    /\ CallsOf(cid) # {} =>
         \E i \in RowsOf(cid) :
           biznesgovpl[i].data = upsertCalls[Latest(CallsOf(cid))].data

\* C31: sync_all_missing takes only connections that have a NIP and had no
\* biznesgovpl row at query time, at most limit of them and in id order,
\* upserts one row for each one the registry returned data for and returns
\* the number of its upserts; upsert_biznesgovpl keeps at most one row per
\* connection_id, with the data of the latest call.
C31_SyncTakesMissingWithNip ==
  /\ \A k \in 1..Len(fetchLog) : HasNip(fetchLog[k].nip)
  /\ TakenWereMissing
  /\ TakenInIdOrder
  /\ OneUpsertPerData
  /\ OneRowPerConnection

\* -------------------------------------------- the lookup API (api_server.py)

\* len(digits) == 10
NipLength == 10
\* The most items of a result page.
MaxItems == 2

NipGood == << "1", "2", "3", "4", "5", "6", "3", "2", "1", "8" >>
NipDashed == << "1", "2", "3", "-", "4", "5", "6", "-", "3", "2", "-", "1", "8" >>
NipOther == << "5", "2", "1", "0", "1", "2", "3", "4", "5", "6" >>
NipShort == << "1", "2", "3" >>
NipLong == NipGood \o << "0" >>
NipWords == << "n", "i", "p" >>
\* The nip parameter of a request: Null when the request has none.
NipParams == { Null, Empty, NipGood, NipDashed, NipShort, NipLong, NipWords }

DigitChar(c) == \E d \in 1..Len(DigitChars) : c = DigitChars[d]

\* _sanitize_nip: re.sub(r"\D+", "", nip), and None unless 10 digits are left.
sanitize_nip(nip) ==
  IF nip = Null \/ nip = Empty THEN Null
  ELSE LET digits == SelectSeq(nip, DigitChar)
       IN  IF Len(digits) = NipLength THEN digits ELSE Null

\* The value of an environment variable: "" when it is not set
\* (os.getenv(name, "")).
KeyValues == { "", "k1", "k2" }
\* The variables of the environment that name a key.
Environments == [ API_KEY : KeyValues, API_KEY_ENV : KeyValues ]

\* A header of the request: its value, or None when the request has none.
NoHeader == "None"
HeaderValues == { NoHeader, "", "k1", "k2" }
\* "X-API-Key" is the header of the usage notes; "x_api_key" is the header
\* that Header(None, convert_underscores=False) reads for the parameter
\* x_api_key.
Requests ==
  [ nip : NipParams,
    headers : [ { "X-API-Key", "x_api_key" } -> HeaderValues ] ]

\* API_KEY_ENV = "API_KEY": the variable the usage notes tell to export.
API_KEY_ENV == "API_KEY"

\* expected = os.getenv("API_KEY_ENV", "")
Expected(e) == e["API_KEY_ENV"]

\* x_api_key: Optional[str] = Header(None, convert_underscores=False)
XApiKeyParam(r) == r.headers["x_api_key"]

\* if not x_api_key or x_api_key != expected
KeyRejected(x_api_key, expected) ==
  x_api_key = NoHeader \/ x_api_key = "" \/ x_api_key # expected

\* The items extract_companies can give for a result page.
Items == { [nip |-> NipDashed], [nip |-> NipOther], [nip |-> Empty] }
BaseLists == UNION { [1..n -> Items] : n \in 0..MaxItems }

\* for item in base_list: ... picked = item; break / picked = base_list[0]
Pick(base_list, nip_digits) ==
  LET same == { i \in 1..Len(base_list) : sanitize_nip(base_list[i].nip) = nip_digits }
  IN  IF same = {} THEN base_list[1]
      ELSE base_list[CHOOSE i \in same : \A j \in same : i <= j]

\* How the try block ends: the dict returned, an HTTPException, another
\* exception.
Returned(item, nip_digits) ==
  [kind |-> "result", status |-> 200, item |-> item, query_nip |-> nip_digits]
HttpError(status) == [kind |-> "http", status |-> status, item |-> << >>, query_nip |-> << >>]
Raised == [kind |-> "raised", status |-> 500, item |-> << >>, query_nip |-> << >>]

\* A faulty variant of AfterQuit: the exception of driver.quit() leaves the
\* finally block.
AfterQuit_Propagates(ended, quit_failed) == IF quit_failed THEN Raised ELSE ended

\* finally: try: driver.quit() except Exception: pass
AfterQuit(ended, quit_failed) == ended

\* A request comes in.
InitApi ==
  /\ SyncIdle
  /\ MainIdle
  /\ call = NoCall
  /\ ret = NoRet
  /\ RegIdle
  /\ environ \in Environments
  /\ request \in Requests
  /\ apc = "request"
  /\ adriver = "none"
  /\ picked = << >>
  /\ scraped = << >>
  /\ quit_calls = 0
  /\ reply = 0

\* lookup_company up to the creation of the driver in _scrape_company_by_nip.
\* A request without the required nip parameter is answered 422 before the
\* handler runs; an exception of scraper.init() is answered 500.
LookupCompany ==
  /\ apc = "request"
  /\ IF request.nip = Null
     THEN reply' = 422 /\ apc' = "responded" /\ adriver' = adriver
     ELSE IF Expected(environ) = ""
     THEN reply' = 500 /\ apc' = "responded" /\ adriver' = adriver
     ELSE IF KeyRejected(XApiKeyParam(request), Expected(environ))
     THEN reply' = 401 /\ apc' = "responded" /\ adriver' = adriver
     ELSE IF sanitize_nip(request.nip) = Null
     THEN reply' = 400 /\ apc' = "responded" /\ adriver' = adriver
     ELSE \E started \in BOOLEAN :
            IF started
            THEN adriver' = "created" /\ apc' = "load" /\ reply' = reply
            ELSE reply' = 500 /\ apc' = "responded" /\ adriver' = adriver
  /\ UNCHANGED << environ, request, picked, scraped, quit_calls >>
  /\ UNCHANGED << syncVars, mainVars, call, ret, regVars >>

\* scraper.set_globals(...); scraper.load_aleo_page(driver, ...)
ScrapeLoad ==
  /\ apc = "load"
  /\ \E loaded \in BOOLEAN :
       IF loaded
       THEN apc' = "extract" /\ scraped' = scraped
       ELSE apc' = "finally" /\ scraped' = Raised
  /\ UNCHANGED << environ, request, adriver, picked, quit_calls, reply >>
  /\ UNCHANGED << syncVars, mainVars, call, ret, regVars >>

\* The result page is parsed, base_list built and picked chosen.
ScrapeExtract ==
  /\ apc = "extract"
  /\ \/ apc' = "finally" /\ scraped' = Raised /\ picked' = picked
     \/ \E base_list \in BaseLists :
          IF base_list = << >>
          THEN apc' = "finally" /\ scraped' = HttpError(404) /\ picked' = picked
          ELSE /\ apc' = "enrich"
               /\ picked' = Pick(base_list, sanitize_nip(request.nip))
               /\ scraped' = scraped
  /\ UNCHANGED << environ, request, adriver, quit_calls, reply >>
  /\ UNCHANGED << syncVars, mainVars, call, ret, regVars >>

\* scraper.augment_companies_with_contacts(driver, [picked], ...) and the
\* return.
ScrapeEnrich ==
  /\ apc = "enrich"
  /\ \E enriched \in BOOLEAN :
       scraped' = IF enriched THEN Returned(picked, sanitize_nip(request.nip))
                  ELSE Raised
  /\ apc' = "finally"
  /\ UNCHANGED << environ, request, adriver, picked, quit_calls, reply >>
  /\ UNCHANGED << syncVars, mainVars, call, ret, regVars >>

\* finally: driver.quit(), and the response: JSONResponse 200, the status of
\* the HTTPException, 500 for another exception.
ScrapeFinally ==
  /\ apc = "finally"
  /\ \E quit_failed \in BOOLEAN :
       /\ adriver' = IF quit_failed THEN "quit_failed" ELSE "quit"
       /\ reply' = AfterQuit(scraped, quit_failed).status
  /\ quit_calls' = quit_calls + 1
  /\ apc' = "responded"
  /\ UNCHANGED << environ, request, picked, scraped >>
  /\ UNCHANGED << syncVars, mainVars, call, ret, regVars >>

NextApi == LookupCompany \/ ScrapeLoad \/ ScrapeExtract \/ ScrapeEnrich \/ ScrapeFinally

SpecApi == InitApi /\ [][NextApi]_vars

\* ---------------------------------------------------- claims on the lookup API
\* The key the server is configured with, and the key the request carries.
ConfiguredKey == environ[API_KEY_ENV]
RequestKey == request.headers["X-API-Key"]
DriverCreated == adriver # "none"
Responded == apc = "responded"

\* C36: no driver is created unless the configured key is not empty, the
\* X-API-Key of the request equals it and the nip parameter has exactly 10
\* digits after sanitizing; a missing server key is answered 500, a wrong or
\* missing request key 401, an invalid nip 400.
C36_ScraperBehindKeyAndNip ==
  /\ DriverCreated =>
       /\ ConfiguredKey # ""
       /\ RequestKey = ConfiguredKey
       /\ sanitize_nip(request.nip) # Null
  /\ (Responded /\ request.nip # Null) =>
       /\ ConfiguredKey = "" => reply = 500
       /\ (ConfiguredKey # "" /\ RequestKey # ConfiguredKey) => reply = 401
       /\ ( ConfiguredKey # "" /\ RequestKey = ConfiguredKey
            /\ sanitize_nip(request.nip) = Null ) => reply = 400

\* C37: once _scrape_company_by_nip is left, the driver it created has been
\* quit, exactly once, whatever ended the try block, and the response is the
\* one the try block decided, also when quit failed.
C37_DriverQuitOnEveryPath ==
  /\ DriverCreated => quit_calls <= 1
  /\ (Responded /\ DriverCreated) =>
       /\ quit_calls = 1
       /\ adriver \in {"quit", "quit_failed"}
       /\ reply = scraped.status
       /\ scraped.kind = "result" <=> reply = 200
  /\ ~DriverCreated => quit_calls = 0

\* A result is returned although quit failed.
C37_Witness ==
  /\ Responded
  /\ adriver = "quit_failed"
  /\ scraped.kind = "result"
  /\ reply = 200

====
